---- MODULE Spec2Model ----
(***************************************************************************)
(* A model of atun (AWS Tagged Tunnel): the tunnel wrappers of package     *)
(* tunnel (GetRouterHostIDFromTags, GetRouterHostConfig, ActivateTunnel,   *)
(* DeactivateTunnel, getFreePort), the constraint checks, and the `up`,    *)
(* `down`, `status` and `router create` commands that drive them.          *)
(***************************************************************************)
EXTENDS Integers, Sequences, FiniteSets, TLC

\* ------------------------------------------------------------------------
\* Bounds of the model
\* ------------------------------------------------------------------------

\* number of distinct atun.io/host/<name> tags a router may carry
MaxHosts == 2

\* ports range over 1..MaxPort (0 is "not set")
MaxPort == 2

\* ------------------------------------------------------------------------
\* Data
\* ------------------------------------------------------------------------

AllHostNames == <<"a", "b", "c", "d">>

HostNames == {AllHostNames[i] : i \in 1..MaxHosts}

Ports == 1..MaxPort

\* config.Endpoint
Endpoint(name, proto, remote, local) ==
    [Name |-> name, Proto |-> proto, Remote |-> remote, Local |-> local]

\* The value of an atun.io/host/<name> tag is a string that is meant to be
\* JSON.  kind "garbage": not JSON at all; kind "mistyped": a JSON object
\* whose remote is a string; kind "object": a JSON object whose absent
\* fields are the zero values ("" and 0).
JSONObject(proto, remote, local) ==
    [kind |-> "object", proto |-> proto, remote |-> remote, local |-> local]

JSONGarbage == [kind |-> "garbage", proto |-> "", remote |-> 0, local |-> 0]

JSONMistyped == [kind |-> "mistyped", proto |-> "ssm", remote |-> 0, local |-> 0]

HostTagValues ==
    {JSONGarbage, JSONMistyped, JSONObject("", 1, 1)}
      \cup {JSONObject("ssm", r, l) : r \in {0, 1}, l \in 0..MaxPort}

\* The tags of an instance: the schema version, the environment label, the
\* host tags by endpoint name and the keys of the tags outside atun.io.
TagMaps ==
    UNION {[version : {"1"}, env : {"dev"}, hosts : [S -> HostTagValues], other : {{"Name"}}] :
             S \in SUBSET HostNames}

NoTags == [version |-> "", env |-> "", hosts |-> <<>>, other |-> {}]

\* the tags stack synthesis puts on the router it creates (createStack)
StackTags(c) ==
    [version |-> c.Version, env |-> c.Env,
     hosts |-> [n \in {c.Hosts[i].Name : i \in 1..Len(c.Hosts)} |->
                  LET last == CHOOSE i \in 1..Len(c.Hosts) :
                                /\ c.Hosts[i].Name = n
                                /\ \A j \in (i+1)..Len(c.Hosts) : c.Hosts[j].Name # n
                  IN  [kind |-> "object", proto |-> c.Hosts[last].Proto,
                       remote |-> c.Hosts[last].Remote, local |-> c.Hosts[last].Local]],
     other |-> {"Name"}]

\* the keys of a tag map, as path segments
TagKeys(t) ==
    (IF t.version # "" THEN {<<"atun.io", "version">>} ELSE {})
      \cup (IF t.env # "" THEN {<<"atun.io", "env">>} ELSE {})
      \cup {<<"atun.io", "host", n>> : n \in DOMAIN t.hosts}
      \cup {<<o>> : o \in t.other}

\* the permutations of a finite set, as sequences
Arrangements(S) ==
    {o \in [1..Cardinality(S) -> S] : \A i, j \in 1..Cardinality(S) : o[i] = o[j] => i = j}

\* The orders in which the Go map of tags can be ranged over.  The version,
\* env and foreign keys write fields no other key reads, so they are put
\* first; the host keys come in every order.
Orders(t) ==
    LET fixed == (IF t.other # {} THEN <<<<"Name">>>> ELSE <<>>)
                   \o (IF t.version # "" THEN <<<<"atun.io", "version">>>> ELSE <<>>)
                   \o (IF t.env # "" THEN <<<<"atun.io", "env">>>> ELSE <<>>)
    IN  {fixed \o [i \in 1..Len(o) |-> <<"atun.io", "host", o[i]>>] :
           o \in Arrangements(DOMAIN t.hosts)}

\* json.Unmarshal([]byte(v), &endpoint)
JSONUnmarshal(v) ==
    IF v.kind = "object"
    THEN [err |-> FALSE, endpoint |-> Endpoint("", v.proto, v.remote, v.local)]
    ELSE [err |-> TRUE, endpoint |-> Endpoint("", "", 0, 0)]

\* config.Atun{} : the zero value, whose Config pointer is nil
EmptyAtun ==
    [Version |-> "", ConfigNil |-> TRUE, Hosts |-> <<>>, RouterHostUser |-> "", Env |-> ""]

\* config.Atun{Config: &config.Config{}}
FreshAtun ==
    [Version |-> "", ConfigNil |-> FALSE, Hosts |-> <<>>, RouterHostUser |-> "", Env |-> ""]

\* getFreePort: listen on 127.0.0.1:0, read the port the system chose, close
\* the listener.  pick is the system's choice: a port not in use, or 0 when
\* the listen fails.
getFreePort(used, pick) ==
    IF pick \in Ports \ used
    THEN [err |-> "", port |-> pick]
    ELSE [err |-> "listen", port |-> 0]

\* what the system can answer to a listen on port 0
SystemPicks(used) == IF Ports \ used = {} THEN {0} ELSE Ports \ used

\* AllocateLocal as it would be if AUTO_ALLOCATE_PORT were not consulted
AllocateLocalFlagIgnored(endpoint, autoAllocate, used, pick) ==
    IF endpoint.Local # 0 THEN [err |-> "", endpoint |-> endpoint]
    ELSE LET p == getFreePort(used, pick)
         IN  IF p.err # "" THEN [err |-> p.err, endpoint |-> endpoint]
             ELSE [err |-> "", endpoint |-> [endpoint EXCEPT !.Local = p.port]]

\* GetRouterHostConfig, "Allocate free local port dynamically if set to 0":
\* the endpoint with its local port, or the error that ends the parsing
AllocateLocal(endpoint, autoAllocate, used, pick) ==
    IF endpoint.Local # 0 THEN [err |-> "", endpoint |-> endpoint]
    ELSE IF autoAllocate
    THEN LET p == getFreePort(used, pick)
         IN  IF p.err # "" THEN [err |-> p.err, endpoint |-> endpoint]
             ELSE [err |-> "", endpoint |-> [endpoint EXCEPT !.Local = p.port]]
    ELSE [err |-> "can't allocate port", endpoint |-> endpoint]

\* HostTag as it would be if a value that does not decode ended the parsing
HostTagStrict(name, value, atun, autoAllocate, used, pick) ==
    LET dec == JSONUnmarshal(value)
        al == AllocateLocal([dec.endpoint EXCEPT !.Name = name], autoAllocate, used, pick)
    IN  IF dec.err THEN [err |-> "unmarshal", atun |-> EmptyAtun]
        ELSE IF al.err # "" THEN [err |-> al.err, atun |-> EmptyAtun]
        ELSE [err |-> "", atun |-> [atun EXCEPT !.Hosts = Append(@, al.endpoint)]]

\* GetRouterHostConfig, case strings.HasPrefix(k, "atun.io/host/"): a value
\* that does not decode is logged and skipped
HostTag(name, value, atun, autoAllocate, used, pick) ==
    LET dec == JSONUnmarshal(value)
        al == AllocateLocal([dec.endpoint EXCEPT !.Name = name], autoAllocate, used, pick)
    IN  IF dec.err THEN [err |-> "", atun |-> atun]
        ELSE IF al.err # "" THEN [err |-> al.err, atun |-> EmptyAtun]
        ELSE [err |-> "", atun |-> [atun EXCEPT !.Hosts = Append(@, al.endpoint)]]

\* GetRouterHostConfig, the body of the loop over the tags
TagStep(k, t, atun, autoAllocate, used, picks) ==
    IF k[1] # "atun.io" THEN [err |-> "", atun |-> atun]
    ELSE IF k = <<"atun.io", "version">>
    THEN [err |-> "", atun |-> [atun EXCEPT !.Version = t.version]]
    ELSE IF k = <<"atun.io", "env">>
    THEN [err |-> "", atun |-> [atun EXCEPT !.Env = t.env]]
    ELSE IF Len(k) = 3 /\ k[2] = "host"
    THEN HostTag(k[3], t.hosts[k[3]], atun, autoAllocate, used, picks[k[3]])
    ELSE [err |-> "", atun |-> atun]

\* the tag loop of GetRouterHostConfig, over the keys in the order the map
\* yields them; an error returns at once
RECURSIVE TagLoop(_, _, _, _, _, _)
TagLoop(order, t, atun, autoAllocate, used, picks) ==
    IF order = <<>> THEN [err |-> "", atun |-> atun]
    ELSE LET step == TagStep(Head(order), t, atun, autoAllocate, used, picks)
         IN  IF step.err # "" THEN step
             ELSE TagLoop(Tail(order), t, step.atun, autoAllocate, used, picks)

\* GetRouterHostConfig(routerHostID): tagsErr and userErr are the outcomes of
\* aws.GetInstanceTags and aws.GetInstanceUsername
GetRouterHostConfig(t, order, tagsErr, userErr, autoAllocate, used, picks) ==
    IF tagsErr THEN [err |-> "tags", atun |-> EmptyAtun]
    ELSE IF userErr THEN [err |-> "username", atun |-> EmptyAtun]
    ELSE TagLoop(order, t, [FreshAtun EXCEPT !.RouterHostUser = "ec2-user"],
                 autoAllocate, used, picks)

\* ------------------------------------------------------------------------
\* State
\* ------------------------------------------------------------------------

VARIABLES
    cmd,            \* the command that runs: "up", "down", "status", "create", or "parse"
    pc,             \* its position
    flags,          \* the command-line flags and terminal mode, as read
    cfg,            \* config.App : Version and the fields of Config
    instances,      \* cloud: the instances carrying the atun.io version and env tags
    tags,           \* cloud: the tags of the router the command asked for
    usedPorts,      \* local machine: the ports in use
    tunnelUp,       \* local machine: the control socket answers the check
    ssmRunning,     \* local machine: a session-manager-plugin process runs on its own
    keyAuthorized,  \* router: the local public key is in authorized_keys
    sessionRecord,  \* local machine: router id recorded under the tunnel directory
    mutated,        \* what the run has written or changed so far
    ghc,            \* the last result of GetRouterHostConfig
    act,            \* the last result of ActivateTunnel / DeactivateTunnel
    hist,           \* what the run has done so far
    exitCode,       \* -1 while running, then the exit code of the process
    call            \* the function applied on its own, its arguments and its result

vars == <<cmd, pc, flags, cfg, instances, tags, usedPorts, tunnelUp, ssmRunning,
          keyAuthorized, sessionRecord, mutated, ghc, act, hist, exitCode, call>>

Instance(id, state) == [id |-> id, state |-> state]

\* the endpoint list a config file or the environment can provide
FileHosts == <<Endpoint("f", "ssm", 1, 1)>>

\* the host tag values the commands meet: undecodable, well formed, local 0
CmdHostTagValues == {JSONGarbage, JSONObject("ssm", 1, 1), JSONObject("ssm", 1, 0)}

CmdTagMaps ==
    UNION {[version : {"1"}, env : {"dev"}, hosts : [S -> CmdHostTagValues], other : {{"Name"}}] :
             S \in SUBSET {"a", "b"}}

NoFlags == [router |-> "", create |-> FALSE, delete |-> FALSE, interactive |-> FALSE, answer |-> FALSE]

NoCall == [fn |-> "", arg |-> <<>>, res |-> <<>>]

NoGHC == [called |-> FALSE, err |-> "", atun |-> EmptyAtun, router |-> ""]

NoAct == [op |-> "", tunnelIsUp |-> FALSE, err |-> "", startCalled |-> FALSE,
          preUp |-> FALSE, preSSM |-> FALSE, sawUp |-> FALSE, sawSSM |-> FALSE,
          reached |-> "", postUp |-> FALSE, termErrs |-> {}, checkErr |-> FALSE]

NoHist == [attempts |-> 0, starts |-> 0, keyPushes |-> 0, prompts |-> 0, creates |-> 0,
           discoveries |-> 0, firstFailed |-> FALSE, retryFailed |-> FALSE,
           constraintFailed |-> FALSE, discoveryMiss |-> FALSE,
           recovered |-> "", deactivated |-> "", finalChecked |-> FALSE,
           replaced |-> FALSE, hadHosts |-> FALSE, waitFailed |-> FALSE,
           reportedReady |-> FALSE, outcome |-> ""]

\* ------------------------------------------------------------------------
\* Constraint checks
\* ------------------------------------------------------------------------

\* validateHost as it would be if a local port of 0 were refused
validateHostLocalPositive(host) ==
    IF host.Name = "" THEN "Endpoint Name is not set"
    ELSE IF host.Remote <= 0 THEN "Endpoint Remote port is not set"
    ELSE IF host.Local <= 0 THEN "Endpoint Local port is not set"
    ELSE IF host.Proto = "" THEN "Endpoint Protocol is not set"
    ELSE ""

\* the checks validateHostConfig makes on one endpoint, in the order of the code
validateHost(host) ==
    IF host.Name = "" THEN "Endpoint Name is not set"
    ELSE IF host.Remote <= 0 THEN "Endpoint Remote port is not set"
    ELSE IF host.Local < 0 THEN "Endpoint Local port is not set"
    ELSE IF host.Proto = "" THEN "Endpoint Protocol is not set"
    ELSE ""

RECURSIVE validateHosts(_)
validateHosts(hosts) ==
    IF hosts = <<>> THEN ""
    ELSE IF validateHost(Head(hosts)) # "" THEN validateHost(Head(hosts))
    ELSE validateHosts(Tail(hosts))

\* validateHostConfig
validateHostConfig(hosts) ==
    IF Len(hosts) = 0 THEN "endpoints config is not set" ELSE validateHosts(hosts)

\* checkSessionManagerPlugin: plugin is "present", "installable" (the check
\* downloads and installs it) or "missing" (the check fails)
checkSessionManagerPlugin(plugin) ==
    IF plugin = "missing" THEN "SSM Agent plugin error" ELSE ""

\* CheckConstraints(options...): the checks in the order of the code
CheckConstraints(opts, c, plugin) ==
    IF "ssmplugin" \in opts /\ checkSessionManagerPlugin(plugin) # ""
    THEN checkSessionManagerPlugin(plugin)
    ELSE IF "awsProfile" \in opts /\ c.AWSProfile = "" THEN "AWS_PROFILE is not set"
    ELSE IF "awsRegion" \in opts /\ c.AWSRegion = "" THEN "AWS_REGION is not set"
    ELSE IF "env" \in opts /\ c.Env = "" THEN "ENV is not set"
    ELSE IF "hostConfig" \in opts /\ validateHostConfig(c.Hosts) # ""
    THEN validateHostConfig(c.Hosts)
    ELSE IF "routerHostID" \in opts /\ c.RouterHostID = "" THEN "Router Endpoint ID is not set"
    ELSE ""

\* ------------------------------------------------------------------------
\* Package ssh (the session manager the wrappers call)
\* ------------------------------------------------------------------------

\* GetSSHTunnelStatus(app): the check operation on the control socket
GetSSHTunnelStatus(up, fail) ==
    IF fail THEN [up |-> FALSE, err |-> TRUE] ELSE [up |-> up, err |-> FALSE]

\* GetSSMPluginStatus(app)
GetSSMPluginStatus(running, fail) ==
    IF fail THEN [running |-> FALSE, err |-> TRUE] ELSE [running |-> running, err |-> FALSE]

\* StartSSHTunnel(app): launch the detached client; it fails when the router
\* refuses the key or the launch fails, and a launched client may be gone by
\* the time it is checked
StartSSHTunnel(authorized, launch) ==
    IF ~authorized \/ launch = "fail" THEN [err |-> TRUE, up |-> FALSE]
    ELSE [err |-> FALSE, up |-> (launch = "alive")]

\* StopSSHTunnel(app): close the multiplexed session
StopSSHTunnel(up, fail) ==
    IF fail THEN [err |-> TRUE, up |-> up] ELSE [err |-> FALSE, up |-> FALSE]

\* ------------------------------------------------------------------------
\* Package tunnel
\* ------------------------------------------------------------------------

\* aws.ListInstancesWithTags: the running instances with the version and env tags
ListInstancesWithTags(insts) == SelectSeq(insts, LAMBDA i : i.state = "running")

\* GetRouterHostIDFromTags: the active tunnels are listed and only logged;
\* the router is the first running instance the cloud lists
GetRouterHostIDFromTags(insts, tunnelsErr, listErr) ==
    IF tunnelsErr THEN [id |-> "", err |-> "tunnels"]
    ELSE IF listErr THEN [id |-> "", err |-> "list"]
    ELSE LET found == ListInstancesWithTags(insts)
             usable == SelectSeq(found, LAMBDA i : i.id # "" /\ i.state = "running")
         IN  IF Len(found) = 0
             THEN [id |-> "", err |-> "no instances found with required tags and in state RUNNING"]
             ELSE IF Len(usable) > 0 THEN [id |-> usable[1].id, err |-> ""]
             ELSE [id |-> "", err |-> ""]

\* ActivateTunnel as it would be without the check of the SSM plugin
ActivateTunnelNoPluginCheck(up, ssm, authorized, o) ==
    LET base == [NoAct EXCEPT !.op = "activate", !.preUp = up, !.preSSM = ssm, !.postUp = up]
        s1 == GetSSHTunnelStatus(up, o.status1)
        started == StartSSHTunnel(authorized, o.launch)
    IN  IF o.creds THEN [base EXCEPT !.err = "can't start tunnel", !.reached = "creds"]
        ELSE IF s1.err THEN [base EXCEPT !.err = "can't check tunnel", !.reached = "status"]
        ELSE IF ~s1.up
        THEN IF started.err
             THEN [base EXCEPT !.err = "start", !.reached = "start", !.startCalled = TRUE,
                               !.tunnelIsUp = s1.up]
             ELSE [base EXCEPT !.reached = "recheck", !.startCalled = TRUE,
                               !.postUp = started.up,
                               !.checkErr = GetSSHTunnelStatus(started.up, o.status2).err,
                               !.tunnelIsUp = GetSSHTunnelStatus(started.up, o.status2).up]
        ELSE [base EXCEPT !.reached = "recheck", !.sawUp = TRUE,
                          !.checkErr = GetSSHTunnelStatus(up, o.status2).err,
                          !.tunnelIsUp = GetSSHTunnelStatus(up, o.status2).up]

\* ActivateTunnel(app).  o holds the outcomes of the calls it makes:
\* o.creds (SetAWSCredentials fails), o.status1 and o.status2 (the liveness
\* check fails), o.ssm (the plugin check fails), o.launch (StartSSHTunnel).
ActivateTunnel(up, ssm, authorized, o) ==
    LET base == [NoAct EXCEPT !.op = "activate", !.preUp = up, !.preSSM = ssm, !.postUp = up]
        s1 == GetSSHTunnelStatus(up, o.status1)
        plugin == GetSSMPluginStatus(ssm, o.ssm)
        started == StartSSHTunnel(authorized, o.launch)
    IN  IF o.creds THEN [base EXCEPT !.err = "can't start tunnel", !.reached = "creds"]
        ELSE IF s1.err THEN [base EXCEPT !.err = "can't check tunnel", !.reached = "status"]
        ELSE IF ~s1.up
        THEN IF plugin.err
             THEN [base EXCEPT !.err = "can't check SSM plugin", !.reached = "plugin",
                               !.tunnelIsUp = s1.up]
             ELSE IF plugin.running
             THEN [base EXCEPT !.err = "Tunnel is down but SSM plugin is already running",
                               !.reached = "plugin", !.sawSSM = TRUE, !.tunnelIsUp = s1.up]
             ELSE IF started.err
             THEN [base EXCEPT !.err = "start", !.reached = "start", !.startCalled = TRUE,
                               !.tunnelIsUp = s1.up]
             ELSE [base EXCEPT !.reached = "recheck", !.startCalled = TRUE,
                               !.postUp = started.up,
                               !.checkErr = GetSSHTunnelStatus(started.up, o.status2).err,
                               !.tunnelIsUp = GetSSHTunnelStatus(started.up, o.status2).up]
        ELSE [base EXCEPT !.reached = "recheck", !.sawUp = TRUE,
                          !.checkErr = GetSSHTunnelStatus(up, o.status2).err,
                          !.tunnelIsUp = GetSSHTunnelStatus(up, o.status2).up]

\* the outcomes ActivateTunnel's calls can have
ActivateOutcomes ==
    [creds : BOOLEAN, status1 : BOOLEAN, ssm : BOOLEAN, status2 : BOOLEAN,
     launch : {"alive", "gone", "fail"}]

\* DeactivateTunnel as it would be if a failed termination were returned
DeactivateTunnelEscalating(up, o) ==
    LET base == [NoAct EXCEPT !.op = "deactivate", !.preUp = up, !.postUp = up]
        stopped == StopSSHTunnel(up, o.stop = "fail")
        afterStop == IF o.stop = "lingering" THEN up ELSE stopped.up
        afterSSH == IF o.termSSH THEN afterStop ELSE FALSE
        afterSSM == IF o.termSSM THEN afterSSH ELSE FALSE
        errs == (IF o.termSSH THEN {"ssh"} ELSE {}) \cup (IF o.termSSM THEN {"ssm"} ELSE {})
    IN  IF stopped.err THEN [base EXCEPT !.err = "stop", !.reached = "stop"]
        ELSE IF o.termSSH
        THEN [base EXCEPT !.err = "terminate", !.reached = "terminate", !.termErrs = {"ssh"},
                          !.postUp = afterStop]
        ELSE [base EXCEPT !.reached = "recheck", !.termErrs = errs, !.postUp = afterSSM,
                          !.checkErr = GetSSHTunnelStatus(afterSSM, o.status).err,
                          !.tunnelIsUp = GetSSHTunnelStatus(afterSSM, o.status).up]

\* DeactivateTunnel(app).  o.stop is the outcome of StopSSHTunnel ("closed",
\* "lingering": no error but forwarding processes survive, "fail"); o.termSSH
\* and o.termSSM tell whether the two terminations fail; o.status whether the
\* final liveness check fails.
DeactivateTunnel(up, o) ==
    LET base == [NoAct EXCEPT !.op = "deactivate", !.preUp = up, !.postUp = up]
        stopped == StopSSHTunnel(up, o.stop = "fail")
        afterStop == IF o.stop = "lingering" THEN up ELSE stopped.up
        afterSSH == IF o.termSSH THEN afterStop ELSE FALSE
        afterSSM == IF o.termSSM THEN afterSSH ELSE FALSE
        errs == (IF o.termSSH THEN {"ssh"} ELSE {}) \cup (IF o.termSSM THEN {"ssm"} ELSE {})
    IN  IF stopped.err THEN [base EXCEPT !.err = "stop", !.reached = "stop"]
        ELSE [base EXCEPT !.reached = "recheck", !.termErrs = errs, !.postUp = afterSSM,
                          !.checkErr = GetSSHTunnelStatus(afterSSM, o.status).err,
                          !.tunnelIsUp = GetSSHTunnelStatus(afterSSM, o.status).up]

\* the outcomes DeactivateTunnel's calls can have
DeactivateOutcomes ==
    [stop : {"closed", "lingering", "fail"}, termSSH : BOOLEAN, termSSM : BOOLEAN,
     status : BOOLEAN]

\* ------------------------------------------------------------------------
\* Initial states of the commands
\* ------------------------------------------------------------------------

Configs ==
    [RouterHostID : {""}, Hosts : {<<>>, FileHosts}, Version : {"1"}, RouterHostUser : {""},
     AutoAllocatePort : BOOLEAN, AWSProfile : {"", "default"}, AWSRegion : {""},
     Env : {"", "dev"}]

Clouds == {<<>>, <<Instance("i-2", "stopped"), Instance("i-1", "running")>>}

Init ==
    /\ cmd \in {"up", "down", "status", "create"}
    /\ pc = "start"
    /\ flags = NoFlags
    /\ cfg \in Configs
    /\ instances \in Clouds
    /\ tags = NoTags
    /\ usedPorts = {1}
    /\ tunnelUp \in BOOLEAN
    /\ ssmRunning \in (IF cmd = "up" THEN BOOLEAN ELSE {FALSE})
    /\ keyAuthorized \in (IF cmd = "up" THEN BOOLEAN ELSE {FALSE})
    /\ sessionRecord \in (IF cmd = "down" THEN {"", "i-2"} ELSE {""})
    /\ mutated = {}
    /\ ghc = NoGHC
    /\ act = NoAct
    /\ hist = NoHist
    /\ exitCode = -1
    /\ call = NoCall

\* the process ends with this exit code
Exit(code, how, h) ==
    /\ pc' = "done"
    /\ exitCode' = code
    /\ hist' = [h EXCEPT !.outcome = how]

Env == <<instances, tags, usedPorts, tunnelUp, ssmRunning, keyAuthorized, sessionRecord>>

\* The MFA cache file, as ini.Load reads it: it exists or not, and holds
\* sections by name.  A section holds the key token_expiration or not (exp.set),
\* with a value that parses as a time or not (exp.parses, exp.time), and a set
\* of other keys.
CredentialKeys == {"aws_access_key_id", "aws_secret_access_key", "aws_session_token"}

Expirations ==
    {[set |-> FALSE, parses |-> FALSE, time |-> 0], [set |-> TRUE, parses |-> FALSE, time |-> 0]}
      \cup {[set |-> TRUE, parses |-> TRUE, time |-> t] : t \in {0, 1, 2}}

Sections == [others : SUBSET (CredentialKeys \cup {"region"}), exp : Expirations]

OtherSection == [others |-> CredentialKeys, exp |-> [set |-> TRUE, parses |-> TRUE, time |-> 2]]

MissingFile == [exists |-> FALSE, sections |-> <<>>]

CacheFiles ==
    {MissingFile, [exists |-> TRUE, sections |-> [n \in {"other-mfa"} |-> OtherSection]]}
      \cup {[exists |-> TRUE,
             sections |-> [n \in {"other-mfa", "default-mfa"} |->
                             IF n = "default-mfa" THEN sec ELSE OtherSection]] : sec \in Sections}

\* fmt.Sprintf("%s-mfa", profile)
MFAProfile(profile) == IF profile = "default" THEN "default-mfa" ELSE "other-mfa"

\* len(sect.KeyStrings())
KeyCount(sect) == Cardinality(sect.others) + (IF sect.exp.set THEN 1 ELSE 0)

\* isMFAUpdateRequired as it would be if the expiration were not compared
\* with the current time
isMFAUpdateRequiredNoClock(file, profile, now) ==
    IF ~file.exists THEN TRUE
    ELSE IF MFAProfile(profile) \notin DOMAIN file.sections THEN TRUE
    ELSE LET sect == file.sections[MFAProfile(profile)]
         IN  IF KeyCount(sect) # 4 THEN TRUE
             ELSE IF ~sect.exp.set THEN TRUE
             ELSE ~sect.exp.parses

\* isMFAUpdateRequired(mfaCredFilePath, profile); it returns no error.  A
\* value that does not parse leaves the zero time, which is before now.
isMFAUpdateRequired(file, profile, now) ==
    IF ~file.exists THEN TRUE
    ELSE IF MFAProfile(profile) \notin DOMAIN file.sections THEN TRUE
    ELSE LET sect == file.sections[MFAProfile(profile)]
             timeExp == IF sect.exp.parses THEN sect.exp.time ELSE -1
         IN  IF KeyCount(sect) # 4 THEN TRUE
             ELSE IF ~sect.exp.set THEN TRUE
             ELSE ~sect.exp.parses \/ timeExp < now

\* writeCredsToFile(creds, f, filepath, profile): the section is created or
\* reused, the four keys are set, the file is saved
writeCredsToFile(expiration, f, profile) ==
    LET name == MFAProfile(profile)
        old == IF name \in DOMAIN f.sections THEN f.sections[name].others ELSE {}
        sect == [others |-> old \cup CredentialKeys,
                 exp |-> [set |-> TRUE, parses |-> TRUE, time |-> expiration]]
    IN  [exists |-> TRUE,
         sections |-> [n \in DOMAIN f.sections \cup {name} |->
                          IF n = name THEN sect ELSE f.sections[n]]]

\* What GetSession finds around it: the base session ("ok", "error",
\* "no region"), the caller ("role", "user"), ListMFADevices ("error",
\* "localhost", "none", "one"), the file at the MFA cache path, the clock, the
\* prompt and GetSessionToken ("ok", "prompt error", "token error"), whether
\* the file can be saved and whether the session of the MFA profile builds.
SessionOK(e) == e.base = "ok" /\ e.token = "ok" /\ e.save /\ e.rebuilt

NoSession(e, err) ==
    [err |-> err, prompted |-> FALSE, minted |-> FALSE, file |-> e.file, profile |-> ""]

\* GetSession(sessionConfig).  The file is loaded a second time after the
\* token is minted, and a file that cannot be loaded ends the call there.
GetSession(sc, e) ==
    LET file == IF sc.MFASharedCredentialsPath = "" THEN MissingFile ELSE e.file
        base == [err |-> "", prompted |-> FALSE, minted |-> FALSE, file |-> e.file,
                 profile |-> sc.Profile]
    IN  IF e.base = "error" THEN NoSession(e, "failed to create AWS session")
        ELSE IF e.base = "no region" THEN NoSession(e, "region could not be resolved")
        ELSE IF e.principal # "user" THEN base
        ELSE IF e.devices = "error" THEN NoSession(e, "failed to list MFA devices")
        ELSE IF e.devices \in {"localhost", "none"} THEN base
        ELSE IF isMFAUpdateRequired(file, sc.Profile, e.now)
        THEN IF e.token = "prompt error"
             THEN [NoSession(e, "prompt") EXCEPT !.prompted = TRUE]
             ELSE IF e.token = "token error"
             THEN [NoSession(e, "failed to get session token") EXCEPT !.prompted = TRUE]
             ELSE IF ~file.exists
             THEN [NoSession(e, "failed to load MFA credentials file") EXCEPT
                       !.prompted = TRUE, !.minted = TRUE]
             ELSE IF ~e.save
             THEN [NoSession(e, "save") EXCEPT !.prompted = TRUE, !.minted = TRUE]
             ELSE IF ~e.rebuilt
             THEN [NoSession(e, "failed to create MFA session") EXCEPT
                       !.prompted = TRUE, !.minted = TRUE,
                       !.file = writeCredsToFile(e.now + 1, file, sc.Profile)]
             ELSE [err |-> "", prompted |-> TRUE, minted |-> TRUE,
                   file |-> writeCredsToFile(e.now + 1, file, sc.Profile),
                   profile |-> MFAProfile(sc.Profile)]
        ELSE IF ~e.rebuilt THEN NoSession(e, "failed to create MFA session")
        ELSE [base EXCEPT !.profile = MFAProfile(sc.Profile)]

\* The surroundings of the session a command opens: "ok" is a caller that is
\* not a user, "mfa" a user with an MFA device, "fail" a base session that
\* cannot be created.
SessionEnv(session) ==
    [base |-> IF session = "fail" THEN "error" ELSE "ok",
     principal |-> IF session = "mfa" THEN "user" ELSE "role",
     devices |-> "one", file |-> MissingFile, now |-> 1, token |-> "ok",
     save |-> TRUE, rebuilt |-> TRUE]

\* The SessionConfig aws.InitAWSClients builds: region, profile and endpoint
\* URL; MFASharedCredentialsPath is left empty.
InitAWSClientsSession(c) ==
    [Profile |-> IF c.AWSProfile = "" THEN "" ELSE "default", MFASharedCredentialsPath |-> ""]

\* aws.InitAWSClients(app): the profile check, then GetSession.  session is
\* "ok", "mfa" or "fail".
InitAWSClientsExits(c, session) ==
    c.AWSProfile = "" \/ GetSession(InitAWSClientsSession(c), SessionEnv(session)).err # ""

InitAWSClientsConfig(c) ==
    IF c.AWSRegion = "" THEN [c EXCEPT !.AWSRegion = "us-east-1"] ELSE c

InitAWSClientsEffect(c, session) ==
    IF /\ c.AWSProfile # ""
       /\ GetSession(InitAWSClientsSession(c), SessionEnv(session)).file # SessionEnv(session).file
    THEN {"credential cache"}
    ELSE {}

\* ------------------------------------------------------------------------
\* atun up
\* ------------------------------------------------------------------------

\* up: CheckConstraints(WithSSMPlugin, WithAWSProfile, WithENV)
UpCheckConstraints ==
    /\ cmd = "up" /\ pc = "start"
    /\ \E plugin \in {"present", "installable", "missing"} :
         LET err == CheckConstraints({"ssmplugin", "awsProfile", "env"}, cfg, plugin)
         IN  /\ IF err # ""
                THEN Exit(1, "error", [hist EXCEPT !.constraintFailed = TRUE])
                ELSE pc' = "u_auth" /\ UNCHANGED <<hist, exitCode>>
    /\ UNCHANGED <<cmd, call, flags, cfg, mutated, ghc, act, Env>>

\* up: aws.InitAWSClients(config.App)
UpInitAWSClients ==
    /\ cmd = "up" /\ pc = "u_auth"
    /\ \E session \in {"ok", "mfa", "fail"} :
         /\ mutated' = mutated \cup InitAWSClientsEffect(cfg, session)
         /\ IF InitAWSClientsExits(cfg, session)
            THEN Exit(1, "fatal", hist) /\ UNCHANGED cfg
            ELSE /\ pc' = "u_resolve"
                 /\ cfg' = InitAWSClientsConfig(cfg)
                 /\ UNCHANGED <<hist, exitCode>>
    /\ UNCHANGED <<cmd, call, flags, ghc, act, Env>>

\* MissDecision as it would be if the terminal mode were not consulted
MissDecisionPrompting(create, interactive, answer) ==
    IF ~create /\ answer = "error" THEN "fatal"
    ELSE "create"

\* up, after a discovery miss: without --create a non-interactive run returns
\* the error and an interactive one asks; routerCreateCmd.RunE is then called
\* whatever the answer was, the refusal being only shown
MissDecision(create, interactive, answer) ==
    IF ~create /\ ~interactive THEN "error"
    ELSE IF ~create /\ answer = "error" THEN "fatal"
    ELSE "create"

\* up: the router is the --router flag, or the one discovered by tags; on a
\* discovery miss the command decides whether to run `router create` inline
UpResolveRouter ==
    /\ cmd = "up" /\ pc = "u_resolve"
    /\ \E router \in {"", "i-2"}, create \in BOOLEAN, interactive \in BOOLEAN,
          answer \in {"yes", "no", "error"}, tunnelsErr \in BOOLEAN, listErr \in BOOLEAN :
         LET found == GetRouterHostIDFromTags(instances, tunnelsErr, listErr)
             read == [flags EXCEPT !.router = router, !.create = create,
                                   !.interactive = interactive]
             h == [hist EXCEPT !.discoveries = @ + 1]
         IN  IF router # ""
             THEN /\ cfg' = [cfg EXCEPT !.RouterHostID = router]
                  /\ flags' = [flags EXCEPT !.router = router]
                  /\ pc' = "u_config"
                  /\ UNCHANGED <<hist, exitCode>>
             ELSE /\ cfg' = [cfg EXCEPT !.RouterHostID = found.id]
                  /\ IF found.err = ""
                     THEN /\ flags' = flags
                          /\ pc' = "u_config"
                          /\ hist' = h
                          /\ UNCHANGED exitCode
                     ELSE IF MissDecision(create, interactive, answer) = "error"
                     THEN /\ flags' = read
                          /\ Exit(1, "error", [h EXCEPT !.discoveryMiss = TRUE])
                     ELSE IF MissDecision(create, interactive, answer) = "fatal"
                     THEN /\ flags' = read
                          /\ Exit(1, "fatal", [h EXCEPT !.discoveryMiss = TRUE, !.prompts = @ + 1])
                     ELSE /\ flags' = [read EXCEPT !.answer = (~create /\ answer = "yes")]
                          /\ pc' = "c_auth"
                          /\ hist' = [h EXCEPT !.discoveryMiss = TRUE,
                                               !.prompts = IF create THEN @ ELSE @ + 1,
                                               !.creates = @ + 1]
                          /\ UNCHANGED exitCode
    /\ UNCHANGED <<cmd, call, mutated, ghc, act, Env>>

\* up: GetRouterHostIDFromTags again after the inline `router create`
UpRediscover ==
    /\ cmd = "up" /\ pc = "u_rediscover"
    /\ \E tunnelsErr \in BOOLEAN, listErr \in BOOLEAN :
         cfg' = [cfg EXCEPT !.RouterHostID =
                   GetRouterHostIDFromTags(instances, tunnelsErr, listErr).id]
    /\ hist' = [hist EXCEPT !.discoveries = @ + 1]
    /\ pc' = "u_config"
    /\ UNCHANGED <<cmd, call, flags, mutated, ghc, act, exitCode, Env>>

\* The calls of GetRouterHostConfig a command can see for a router: the tags
\* the cloud holds for it, the ports in use, the order of the map and the
\* ports the system hands out.  An empty router id is no instance.
CreatedRouter == "i-9"

TagsOf(router) == IF router = CreatedRouter THEN {tags} ELSE CmdTagMaps

Fetches(router, autoAllocate) ==
    {[res |-> GetRouterHostConfig(NoTags, <<>>, TRUE, FALSE, autoAllocate, {}, <<>>),
      tags |-> tags, used |-> usedPorts],
     [res |-> GetRouterHostConfig(NoTags, <<>>, FALSE, TRUE, autoAllocate, {}, <<>>),
      tags |-> tags, used |-> usedPorts]}
    \cup
    (IF router = "" THEN {}
     ELSE UNION {UNION {
            {[res |-> GetRouterHostConfig(t, o, FALSE, FALSE, autoAllocate, usedPorts, p),
              tags |-> t, used |-> usedPorts] : p \in [DOMAIN t.hosts -> SystemPicks(usedPorts)]} :
            o \in Orders(t)} : t \in TagsOf(router)})

\* ReplaceConfig as it would be if the fetched endpoints were added to the
\* local ones
ReplaceConfigAppending(c, atun) ==
    [c EXCEPT !.Version = atun.Version, !.Hosts = @ \o atun.Hosts,
              !.RouterHostUser = atun.RouterHostUser]

\* config.App takes the version, hosts and login user of the fetched config
ReplaceConfig(c, atun) ==
    [c EXCEPT !.Version = atun.Version, !.Hosts = atun.Hosts,
              !.RouterHostUser = atun.RouterHostUser]

\* up: GetRouterHostConfig, fatal on error, then the fetched config replaces
\* the local one
UpGetRouterHostConfig ==
    /\ cmd = "up" /\ pc = "u_config"
    /\ \E f \in Fetches(cfg.RouterHostID, cfg.AutoAllocatePort) :
         /\ ghc' = [called |-> TRUE, err |-> f.res.err, atun |-> f.res.atun,
                    router |-> cfg.RouterHostID]
         /\ tags' = f.tags
         /\ usedPorts' = f.used
         /\ IF f.res.err # ""
            THEN Exit(1, "fatal", hist) /\ UNCHANGED cfg
            ELSE /\ cfg' = ReplaceConfig(cfg, f.res.atun)
                 /\ hist' = [hist EXCEPT !.replaced = TRUE, !.hadHosts = (Len(cfg.Hosts) > 0)]
                 /\ pc' = "u_sshconfig"
                 /\ UNCHANGED exitCode
    /\ UNCHANGED <<cmd, call, flags, mutated, act, instances, tunnelUp, ssmRunning,
                   keyAuthorized, sessionRecord>>

\* up: ssh.GenerateSSHConfigFile writes the client configuration; an error
\* is only reported and the run goes on the same way
UpGenerateSSHConfig ==
    /\ cmd = "up" /\ pc = "u_sshconfig"
    /\ mutated' = mutated \cup {"ssh config"}
    /\ pc' = "u_activate"
    /\ UNCHANGED <<cmd, call, flags, cfg, ghc, act, hist, exitCode, Env>>

\* up: the first tunnel.ActivateTunnel
UpActivate ==
    /\ cmd = "up" /\ pc = "u_activate"
    /\ \E o \in ActivateOutcomes :
         LET r == ActivateTunnel(tunnelUp, ssmRunning, keyAuthorized, o)
             h == [hist EXCEPT !.attempts = @ + 1,
                               !.starts = IF r.startCalled THEN @ + 1 ELSE @]
         IN  /\ act' = r
             /\ tunnelUp' = r.postUp
             /\ mutated' = IF r.startCalled /\ r.err = "" THEN mutated \cup {"tunnel"} ELSE mutated
             /\ IF r.err # ""
                THEN /\ pc' = "u_key"
                     /\ hist' = [h EXCEPT !.firstFailed = TRUE]
                     /\ UNCHANGED exitCode
                ELSE Exit(0, "ok", h)
    /\ UNCHANGED <<cmd, call, flags, cfg, ghc, instances, tags, usedPorts, ssmRunning,
                   keyAuthorized, sessionRecord>>

\* UpEnsureKey as it would be if the failure to put the key on the router
\* were only logged
UpEnsureKeyErrorIgnored ==
    /\ cmd = "up" /\ pc = "u_key"
    /\ \E ensured \in BOOLEAN :
         IF ensured
         THEN /\ keyAuthorized' = TRUE
              /\ hist' = [hist EXCEPT !.keyPushes = @ + 1]
         ELSE UNCHANGED <<keyAuthorized, hist>>
    /\ pc' = "u_retry"
    /\ UNCHANGED <<cmd, call, flags, cfg, ghc, act, mutated, instances, tags, usedPorts,
                   tunnelUp, ssmRunning, sessionRecord, exitCode>>

\* up: ssh.GetPublicKey (an error is only logged), then
\* aws.EnsureSSHPublicKeyPresent, whose failure ends the process
UpEnsureKey ==
    /\ cmd = "up" /\ pc = "u_key"
    /\ \E ensured \in BOOLEAN :
         IF ensured
         THEN /\ keyAuthorized' = TRUE
              /\ hist' = [hist EXCEPT !.keyPushes = @ + 1]
              /\ pc' = "u_retry"
              /\ UNCHANGED exitCode
         ELSE /\ Exit(1, "exit", hist)
              /\ UNCHANGED keyAuthorized
    /\ UNCHANGED <<cmd, call, flags, cfg, ghc, act, mutated, instances, tags, usedPorts,
                   tunnelUp, ssmRunning, sessionRecord>>

\* up: the retry of tunnel.ActivateTunnel after the key is on the router
UpRetry ==
    /\ cmd = "up" /\ pc = "u_retry"
    /\ \E o \in ActivateOutcomes :
         LET r == ActivateTunnel(tunnelUp, ssmRunning, keyAuthorized, o)
             h == [hist EXCEPT !.attempts = @ + 1,
                               !.starts = IF r.startCalled THEN @ + 1 ELSE @]
         IN  /\ act' = r
             /\ tunnelUp' = r.postUp
             /\ mutated' = IF r.startCalled /\ r.err = "" THEN mutated \cup {"tunnel"} ELSE mutated
             /\ IF r.err # ""
                THEN Exit(1, "exit", [h EXCEPT !.retryFailed = TRUE])
                ELSE Exit(0, "ok", h)
    /\ UNCHANGED <<cmd, call, flags, cfg, ghc, instances, tags, usedPorts, ssmRunning,
                   keyAuthorized, sessionRecord>>

\* ------------------------------------------------------------------------
\* atun router create (run on its own, or inline from up)
\* ------------------------------------------------------------------------

InCreate(at) == \/ cmd = "create" /\ pc = (IF at = "c_auth" THEN "start" ELSE at)
                \/ cmd = "up" /\ pc = at

\* the endpoint lists the survey of buildHostConfig can produce
UserHosts ==
    {<<Endpoint("u", "ssm", 1, 0)>>, <<Endpoint("u", "ssm", 0, 0)>>, <<Endpoint("", "ssm", 1, 1)>>}

\* config.SaveConfig: atun.toml is written unless it exists already; file is
\* "absent", "exists" or "unwritable"
SaveConfig(file) == IF file = "absent" THEN {"config file"} ELSE {}

\* router create: aws.InitAWSClients(config.App)
CreateInitAWSClients ==
    /\ InCreate("c_auth")
    /\ \E session \in {"ok", "mfa", "fail"} :
         /\ mutated' = mutated \cup InitAWSClientsEffect(cfg, session)
         /\ IF InitAWSClientsExits(cfg, session)
            THEN Exit(1, "fatal", hist) /\ UNCHANGED cfg
            ELSE /\ pc' = "c_config"
                 /\ cfg' = InitAWSClientsConfig(cfg)
                 /\ UNCHANGED <<hist, exitCode>>
    /\ UNCHANGED <<cmd, call, flags, ghc, act, Env>>

\* router create: with no endpoints configured, buildHostConfig asks for them
\* and the user may have them saved
CreateCheckConfig ==
    /\ InCreate("c_config")
    /\ IF Len(cfg.Hosts) # 0
       THEN pc' = "c_check" /\ UNCHANGED <<cfg, mutated, hist, exitCode>>
       ELSE \E survey \in {"error", "declined", "fatal", "built"}, hosts \in UserHosts,
               session \in {"ok", "mfa"}, save \in {"error", "yes", "no"},
               file \in {"absent", "exists", "unwritable"} :
              IF survey \in {"error", "fatal"}
              THEN Exit(1, "fatal", hist) /\ UNCHANGED <<cfg, mutated>>
              ELSE IF survey = "declined"
              THEN Exit(0, "exit", hist) /\ UNCHANGED <<cfg, mutated>>
              ELSE IF InitAWSClientsExits(cfg, session)
              THEN Exit(1, "fatal", hist) /\ UNCHANGED <<cfg, mutated>>
              ELSE /\ cfg' = [cfg EXCEPT !.Hosts = hosts]
                   /\ IF save = "error"
                      THEN /\ Exit(1, "fatal", hist)
                           /\ mutated' = mutated \cup InitAWSClientsEffect(cfg, session)
                      ELSE /\ pc' = "c_check"
                           /\ mutated' = mutated \cup InitAWSClientsEffect(cfg, session)
                                           \cup (IF save = "yes" THEN SaveConfig(file) ELSE {})
                           /\ UNCHANGED <<hist, exitCode>>
    /\ UNCHANGED <<cmd, call, flags, ghc, act, Env>>

\* router create: CheckConstraints(WithSSMPlugin, WithAWSProfile,
\* WithAWSRegion, WithENV, WithHostConfig)
CreateOptions == {"ssmplugin", "awsProfile", "awsRegion", "env", "hostConfig"}

CreateCheckConstraints ==
    /\ InCreate("c_check")
    /\ \E plugin \in {"present", "installable", "missing"} :
         LET err == CheckConstraints(CreateOptions, cfg, plugin)
         IN  /\ IF err # ""
                THEN Exit(1, "error", [hist EXCEPT !.constraintFailed = TRUE])
                ELSE pc' = "c_vpc" /\ UNCHANGED <<hist, exitCode>>
    /\ UNCHANGED <<cmd, call, flags, cfg, mutated, ghc, act, Env>>

\* router create: the subnet is asked for and its VPC looked up
CreateResolveVPC ==
    /\ InCreate("c_vpc")
    /\ \E vpc \in {"ok", "fatal", "error"} :
         IF vpc = "ok" THEN pc' = "c_apply" /\ UNCHANGED <<hist, exitCode>>
         ELSE Exit(1, vpc, hist)
    /\ UNCHANGED <<cmd, call, flags, cfg, mutated, ghc, act, Env>>

\* router create: infra.ApplyCDKTF creates the tagged router instance
CreateApply ==
    /\ InCreate("c_apply")
    /\ \E applied \in BOOLEAN :
         IF applied
         THEN /\ instances' = Append(instances, Instance(CreatedRouter, "running"))
              /\ tags' = StackTags(cfg)
              /\ mutated' = mutated \cup {"infrastructure"}
              /\ pc' = "c_discover"
              /\ UNCHANGED <<hist, exitCode>>
         ELSE /\ Exit(1, "error", hist)
              /\ UNCHANGED <<instances, tags, mutated>>
    /\ UNCHANGED <<cmd, call, flags, cfg, ghc, act, usedPorts, tunnelUp, ssmRunning,
                   keyAuthorized, sessionRecord>>

\* router create: GetRouterHostIDFromTags, fatal on error
CreateDiscover ==
    /\ InCreate("c_discover")
    /\ \E tunnelsErr \in BOOLEAN, listErr \in BOOLEAN :
         LET found == GetRouterHostIDFromTags(instances, tunnelsErr, listErr)
             h == [hist EXCEPT !.discoveries = @ + 1]
         IN  /\ cfg' = [cfg EXCEPT !.RouterHostID = found.id]
             /\ IF found.err # "" THEN Exit(1, "fatal", h)
                ELSE pc' = "c_wait" /\ hist' = h /\ UNCHANGED exitCode
    /\ UNCHANGED <<cmd, call, flags, mutated, ghc, act, Env>>

\* router create: aws.WaitForInstanceReady; its error is shown, then the
\* router is reported ready and the command returns nil
CreateWait ==
    /\ InCreate("c_wait")
    /\ \E ready \in BOOLEAN :
         LET h == [hist EXCEPT !.waitFailed = ~ready, !.reportedReady = TRUE]
         IN  IF cmd = "up"
             THEN pc' = "u_rediscover" /\ hist' = h /\ UNCHANGED exitCode
             ELSE Exit(0, "ok", h)
    /\ UNCHANGED <<cmd, call, flags, cfg, mutated, ghc, act, Env>>

\* ------------------------------------------------------------------------
\* atun router delete
\* ------------------------------------------------------------------------

\* terraform destroy that leaves the stack's instance as it found it
DestroyCDKTFLeavesInstance(insts, destroyed) == insts

\* infra.DestroyCDKTF: the stack is synthesized again and `terraform destroy
\* -auto-approve` run on it; when it succeeds the instance of the stack is
\* terminated, and the provider goes on listing it in that state
DestroyCDKTF(insts, destroyed) ==
    IF ~destroyed THEN insts
    ELSE [i \in DOMAIN insts |->
            IF insts[i].id = CreatedRouter THEN Instance(CreatedRouter, "terminated")
            ELSE insts[i]]

\* router delete, run once `create` has returned nil: InitAWSClients, then
\* DestroyCDKTF, whose error is the command's error
RouterDelete ==
    /\ cmd = "create" /\ pc = "done" /\ exitCode = 0 /\ hist.reportedReady
    /\ cmd' = "delete"
    /\ \E session \in {"ok", "mfa", "fail"}, destroyed \in BOOLEAN :
         /\ mutated' = mutated \cup InitAWSClientsEffect(cfg, session)
         /\ IF InitAWSClientsExits(cfg, session)
            THEN Exit(1, "fatal", hist) /\ UNCHANGED instances
            ELSE /\ instances' = DestroyCDKTF(instances, destroyed)
                 /\ IF destroyed THEN Exit(0, "ok", hist) ELSE Exit(1, "error", hist)
    /\ UNCHANGED <<call, flags, cfg, ghc, act, tags, usedPorts, tunnelUp, ssmRunning,
                   keyAuthorized, sessionRecord>>

\* ------------------------------------------------------------------------
\* atun down
\* ------------------------------------------------------------------------

\* ssh.GetRouterHostIDFromExistingSession(tunnelDir): the router id of the
\* session recorded under the tunnel directory, an error when there is none
GetRouterHostIDFromExistingSession(record) ==
    IF record = "" THEN [id |-> "", err |-> TRUE] ELSE [id |-> record, err |-> FALSE]

\* down: CheckConstraints(WithAWSProfile, WithENV)
DownCheckConstraints ==
    /\ cmd = "down" /\ pc = "start"
    /\ LET err == CheckConstraints({"awsProfile", "env"}, cfg, "present")
       IN  IF err # ""
           THEN Exit(1, "error", [hist EXCEPT !.constraintFailed = TRUE])
           ELSE pc' = "d_resolve" /\ UNCHANGED <<hist, exitCode>>
    /\ UNCHANGED <<cmd, call, flags, cfg, mutated, ghc, act, Env>>

\* down: the router is the --router flag; without it the recorded session is
\* read into the local routerHostID
DownRecoverSession ==
    /\ cmd = "down" /\ pc = "d_resolve"
    /\ \E router \in {"", "i-2"} :
         /\ flags' = [flags EXCEPT !.router = router]
         /\ IF router # ""
            THEN /\ cfg' = [cfg EXCEPT !.RouterHostID = router]
                 /\ pc' = "d_config"
                 /\ UNCHANGED hist
            ELSE /\ hist' = [hist EXCEPT !.recovered =
                               GetRouterHostIDFromExistingSession(sessionRecord).id]
                 /\ pc' = "d_auth"
                 /\ UNCHANGED cfg
    /\ UNCHANGED <<cmd, call, mutated, ghc, act, exitCode, Env>>

\* down: aws.InitAWSClients(config.App)
DownInitAWSClients ==
    /\ cmd = "down" /\ pc = "d_auth"
    /\ \E session \in {"ok", "mfa", "fail"} :
         /\ mutated' = mutated \cup InitAWSClientsEffect(cfg, session)
         /\ IF InitAWSClientsExits(cfg, session)
            THEN Exit(1, "fatal", hist) /\ UNCHANGED cfg
            ELSE /\ pc' = "d_discover"
                 /\ cfg' = InitAWSClientsConfig(cfg)
                 /\ UNCHANGED <<hist, exitCode>>
    /\ UNCHANGED <<cmd, call, flags, ghc, act, Env>>

\* down: GetRouterHostIDFromTags sets the configured router, and is called
\* once more when it fails
DownDiscover ==
    /\ cmd = "down" /\ pc = "d_discover"
    /\ \E tunnelsErr \in BOOLEAN, listErr \in BOOLEAN, again \in BOOLEAN :
         LET first == GetRouterHostIDFromTags(instances, tunnelsErr, listErr)
             second == GetRouterHostIDFromTags(instances, tunnelsErr /\ again, listErr /\ again)
         IN  IF first.err = ""
             THEN /\ cfg' = [cfg EXCEPT !.RouterHostID = first.id]
                  /\ hist' = [hist EXCEPT !.discoveries = @ + 1]
             ELSE /\ cfg' = [cfg EXCEPT !.RouterHostID = second.id]
                  /\ hist' = [hist EXCEPT !.discoveries = @ + 2, !.discoveryMiss = TRUE]
    /\ pc' = "d_config"
    /\ UNCHANGED <<cmd, call, flags, mutated, ghc, act, exitCode, Env>>

\* down: GetRouterHostConfig; on error the failure is shown and the next
\* statement reads Config.Hosts of the empty result, whose Config is nil
DownGetRouterHostConfig ==
    /\ cmd = "down" /\ pc = "d_config"
    /\ \E f \in Fetches(cfg.RouterHostID, cfg.AutoAllocatePort) :
         /\ ghc' = [called |-> TRUE, err |-> f.res.err, atun |-> f.res.atun,
                    router |-> cfg.RouterHostID]
         /\ tags' = f.tags
         /\ usedPorts' = f.used
         /\ IF f.res.atun.ConfigNil
            THEN Exit(2, "panic", hist) /\ UNCHANGED cfg
            ELSE /\ cfg' = ReplaceConfig(cfg, f.res.atun)
                 /\ hist' = [hist EXCEPT !.replaced = TRUE, !.hadHosts = (Len(cfg.Hosts) > 0)]
                 /\ pc' = "d_deactivate"
                 /\ UNCHANGED exitCode
    /\ UNCHANGED <<cmd, call, flags, mutated, act, instances, tunnelUp, ssmRunning,
                   keyAuthorized, sessionRecord>>

\* down: ssh.GetSSHTunnelStatus, and tunnel.DeactivateTunnel when it is up
DownDeactivate ==
    /\ cmd = "down" /\ pc = "d_deactivate"
    /\ \E statusErr \in BOOLEAN, o \in DeactivateOutcomes :
         LET tunnelActive == GetSSHTunnelStatus(tunnelUp, statusErr).up
             r == DeactivateTunnel(tunnelUp, o)
         IN  IF tunnelActive
             THEN /\ act' = r
                  /\ tunnelUp' = r.postUp
                  /\ hist' = [hist EXCEPT !.deactivated = cfg.RouterHostID]
             ELSE UNCHANGED <<act, tunnelUp, hist>>
    /\ pc' = "d_final"
    /\ UNCHANGED <<cmd, call, flags, cfg, mutated, ghc, exitCode, instances, tags, usedPorts,
                   ssmRunning, keyAuthorized, sessionRecord>>

\* down: the final liveness check, the optional `router delete`, the table
DownFinal ==
    /\ cmd = "down" /\ pc = "d_final"
    /\ \E delete \in BOOLEAN, destroyed \in BOOLEAN :
         /\ flags' = [flags EXCEPT !.delete = delete]
         /\ IF delete /\ destroyed
            THEN /\ instances' = SelectSeq(instances, LAMBDA i : i.id # CreatedRouter)
                 /\ mutated' = mutated \cup {"infrastructure"}
            ELSE UNCHANGED <<instances, mutated>>
    /\ Exit(0, "ok", [hist EXCEPT !.finalChecked = TRUE])
    /\ UNCHANGED <<cmd, call, cfg, ghc, act, tags, usedPorts, tunnelUp, ssmRunning,
                   keyAuthorized, sessionRecord>>

\* ------------------------------------------------------------------------
\* atun status
\* ------------------------------------------------------------------------

\* status: the router is the --router flag, or the one discovered by tags
\* after aws.InitAWSClients; on a discovery miss the command returns nil
StatusResolveRouter ==
    /\ cmd = "status" /\ pc = "start"
    /\ \E router \in {"", "i-2"}, session \in {"ok", "mfa", "fail"},
          tunnelsErr \in BOOLEAN, listErr \in BOOLEAN :
         LET found == GetRouterHostIDFromTags(instances, tunnelsErr, listErr)
             h == [hist EXCEPT !.discoveries = @ + 1]
         IN  /\ flags' = [flags EXCEPT !.router = router]
             /\ IF router # ""
                THEN /\ cfg' = [cfg EXCEPT !.RouterHostID = router]
                     /\ pc' = "s_config"
                     /\ UNCHANGED <<mutated, hist, exitCode>>
                ELSE /\ mutated' = mutated \cup InitAWSClientsEffect(cfg, session)
                     /\ IF InitAWSClientsExits(cfg, session)
                        THEN Exit(1, "fatal", hist) /\ UNCHANGED cfg
                        ELSE /\ cfg' = [InitAWSClientsConfig(cfg) EXCEPT !.RouterHostID = found.id]
                             /\ IF found.err # ""
                                THEN Exit(0, "ok", [h EXCEPT !.discoveryMiss = TRUE])
                                ELSE pc' = "s_config" /\ hist' = h /\ UNCHANGED exitCode
    /\ UNCHANGED <<cmd, call, ghc, act, Env>>

\* status: GetRouterHostConfig, then Config.Hosts of the result is read
StatusGetRouterHostConfig ==
    /\ cmd = "status" /\ pc = "s_config"
    /\ \E f \in Fetches(cfg.RouterHostID, cfg.AutoAllocatePort) :
         /\ ghc' = [called |-> TRUE, err |-> f.res.err, atun |-> f.res.atun,
                    router |-> cfg.RouterHostID]
         /\ tags' = f.tags
         /\ usedPorts' = f.used
         /\ IF f.res.atun.ConfigNil
            THEN Exit(2, "panic", hist) /\ UNCHANGED cfg
            ELSE /\ cfg' = ReplaceConfig(cfg, f.res.atun)
                 /\ hist' = [hist EXCEPT !.replaced = TRUE, !.hadHosts = (Len(cfg.Hosts) > 0)]
                 /\ pc' = "s_report"
                 /\ UNCHANGED exitCode
    /\ UNCHANGED <<cmd, call, flags, mutated, act, instances, tunnelUp, ssmRunning,
                   keyAuthorized, sessionRecord>>

\* status: the liveness check, the endpoints table, a last discovery
StatusReport ==
    /\ cmd = "status" /\ pc = "s_report"
    /\ \E tunnelsErr \in BOOLEAN, listErr \in BOOLEAN :
         cfg' = [cfg EXCEPT !.RouterHostID =
                   GetRouterHostIDFromTags(instances, tunnelsErr, listErr).id]
    /\ Exit(0, "ok", [hist EXCEPT !.discoveries = @ + 1, !.finalChecked = TRUE])
    /\ UNCHANGED <<cmd, call, flags, mutated, ghc, act, Env>>

\* ------------------------------------------------------------------------
\* The commands
\* ------------------------------------------------------------------------

Next ==
    \/ UpCheckConstraints
    \/ UpInitAWSClients
    \/ UpResolveRouter
    \/ UpRediscover
    \/ UpGetRouterHostConfig
    \/ UpGenerateSSHConfig
    \/ UpActivate
    \/ UpEnsureKey
    \/ UpRetry
    \/ CreateInitAWSClients
    \/ CreateCheckConfig
    \/ CreateCheckConstraints
    \/ CreateResolveVPC
    \/ CreateApply
    \/ CreateDiscover
    \/ CreateWait
    \/ RouterDelete
    \/ DownCheckConstraints
    \/ DownRecoverSession
    \/ DownInitAWSClients
    \/ DownDiscover
    \/ DownGetRouterHostConfig
    \/ DownDeactivate
    \/ DownFinal
    \/ StatusResolveRouter
    \/ StatusGetRouterHostConfig
    \/ StatusReport

Spec == Init /\ [][Next]_vars

\* ------------------------------------------------------------------------
\* GetRouterHostConfig on its own, over every tag map within the bounds
\* ------------------------------------------------------------------------

InitParse ==
    /\ cmd = "parse"
    /\ pc = "start"
    /\ flags = NoFlags
    /\ cfg \in [RouterHostID : {"i-1"}, Hosts : {FileHosts}, Version : {"1"},
                RouterHostUser : {""}, AutoAllocatePort : BOOLEAN, AWSProfile : {"default"},
                AWSRegion : {"us-east-1"}, Env : {"dev"}]
    /\ instances = <<Instance("i-1", "running")>>
    /\ tags \in TagMaps
    /\ usedPorts \in SUBSET Ports
    /\ tunnelUp = FALSE
    /\ ssmRunning = FALSE
    /\ keyAuthorized = FALSE
    /\ sessionRecord = ""
    /\ mutated = {}
    /\ ghc = NoGHC
    /\ act = NoAct
    /\ hist = NoHist
    /\ exitCode = -1
    /\ call = NoCall

\* one call of GetRouterHostConfig(cfg.RouterHostID)
ParseCall ==
    /\ cmd = "parse" /\ pc = "start"
    /\ \E tagsErr \in BOOLEAN, userErr \in BOOLEAN, o \in Orders(tags),
          p \in [DOMAIN tags.hosts -> SystemPicks(usedPorts)] :
         LET r == GetRouterHostConfig(tags, o, tagsErr, userErr, cfg.AutoAllocatePort,
                                      usedPorts, p)
         IN  ghc' = [called |-> TRUE, err |-> r.err, atun |-> r.atun,
                     router |-> cfg.RouterHostID]
    /\ pc' = "done"
    /\ UNCHANGED <<cmd, call, flags, cfg, mutated, act, hist, exitCode, Env>>

NextParse == ParseCall

SpecParse == InitParse /\ [][NextParse]_vars

\* ------------------------------------------------------------------------
\* Functions and commands run on their own
\* ------------------------------------------------------------------------

\* routerInstallCmd with the proto, local and remote of a host put under
\* each other's keys
MarshalHostConfigSwapped(host) ==
    [kind |-> "object", proto |-> host.Proto, remote |-> host.Local, local |-> host.Remote]

\* routerInstallCmd: json.Marshal of the map {"proto", "local", "remote"} of
\* a host; the name is not part of the value
MarshalHostConfig(host) ==
    [kind |-> "object", proto |-> host.Proto, remote |-> host.Remote, local |-> host.Local]

\* routerInstallCmd: the tags CreateTags puts on the instance, over the tags
\* it has; a later host of the same name replaces an earlier one
InstallTags(t, c) ==
    LET names == {c.Hosts[i].Name : i \in 1..Len(c.Hosts)}
        last(n) == CHOOSE i \in 1..Len(c.Hosts) :
                     /\ c.Hosts[i].Name = n
                     /\ \A j \in (i+1)..Len(c.Hosts) : c.Hosts[j].Name # n
    IN  [version |-> c.Version, env |-> c.Env,
         hosts |-> [n \in DOMAIN t.hosts \cup names |->
                      IF n \in names THEN MarshalHostConfig(c.Hosts[last(n)])
                      ELSE t.hosts[n]],
         other |-> t.other]

\* the position of a name in AllHostNames
NameIndex(n) == CHOOSE i \in 1..Len(AllHostNames) : AllHostNames[i] = n

\* the endpoint lists of a configuration: endpoints of different names, here
\* listed by name (the tags written are a map, so the order of the list does
\* not reach them)
InstallLists ==
    UNION {{[i \in 1..Cardinality(S) |->
               LET n == CHOOSE n \in S : Cardinality({m \in S : NameIndex(m) < NameIndex(n)}) = i - 1
               IN  Endpoint(n, f[n].proto, f[n].remote, f[n].local)] :
              f \in [S -> [proto : {"ssm", ""}, remote : {0, 1}, local : 0..MaxPort]]} :
             S \in SUBSET HostNames \ {{}}}

InitUnitFixed ==
    /\ pc = "start"
    /\ flags = NoFlags
    /\ instances = <<Instance("i-1", "running")>>
    /\ tunnelUp = FALSE
    /\ ssmRunning = FALSE
    /\ keyAuthorized = FALSE
    /\ sessionRecord = ""
    /\ mutated = {}
    /\ ghc = NoGHC
    /\ act = NoAct
    /\ hist = NoHist
    /\ exitCode = -1

UnitConfig ==
    [RouterHostID |-> "", Hosts |-> <<>>, Version |-> "1", RouterHostUser |-> "",
     AutoAllocatePort |-> FALSE, AWSProfile |-> "default", AWSRegion |-> "us-east-1",
     Env |-> "dev"]

\* router install, and stack synthesis, on an instance that carries a tag
\* outside atun.io
InitInstall ==
    /\ cmd = "install"
    /\ cfg \in {[UnitConfig EXCEPT !.Hosts = h, !.AutoAllocatePort = a, !.Env = e] :
                  h \in InstallLists, a \in BOOLEAN, e \in {"dev", ""}}
    /\ tags = [NoTags EXCEPT !.other = {"Name"}]
    /\ usedPorts = {1}
    /\ call = NoCall

\* router install --router <id>: constraint checks, authentication, the
\* instance is looked up, the tags are created, the router id is configured
RouterInstall ==
    /\ cmd = "install" /\ pc = "start"
    /\ \E session \in {"ok", "fail"}, router \in {"", "i-1", "i-0"}, created \in BOOLEAN :
         LET err == CheckConstraints({"awsProfile", "env"}, cfg, "present")
             known == \E i \in 1..Len(instances) : instances[i].id = router
         IN  IF err # "" THEN /\ Exit(1, "error", [hist EXCEPT !.constraintFailed = TRUE])
                              /\ UNCHANGED <<cfg, tags, mutated, flags>>
             ELSE IF InitAWSClientsExits(cfg, session)
             THEN Exit(1, "fatal", hist) /\ UNCHANGED <<cfg, tags, mutated, flags>>
             ELSE /\ flags' = [flags EXCEPT !.router = router]
                  /\ IF router = "" \/ ~known \/ ~created
                     THEN Exit(1, "error", hist) /\ UNCHANGED <<cfg, tags, mutated>>
                     ELSE /\ tags' = InstallTags(tags, cfg)
                          /\ cfg' = [cfg EXCEPT !.RouterHostID = router]
                          /\ mutated' = mutated \cup {"tags"}
                          /\ pc' = "written"
                          /\ UNCHANGED <<hist, exitCode>>
    /\ call' = [call EXCEPT !.fn = "router install"]
    /\ UNCHANGED <<cmd, instances, usedPorts, tunnelUp, ssmRunning, keyAuthorized,
                   sessionRecord, ghc, act>>

\* stack synthesis puts the tags on the router it defines
StackSynthesis ==
    /\ cmd = "install" /\ pc = "start"
    /\ tags' = StackTags(cfg)
    /\ pc' = "written"
    /\ call' = [call EXCEPT !.fn = "createStack"]
    /\ UNCHANGED <<cmd, flags, cfg, mutated, ghc, act, hist, exitCode, instances, usedPorts,
                   tunnelUp, ssmRunning, keyAuthorized, sessionRecord>>

\* GetRouterHostConfig of the instance whose tags were written
ParseBack ==
    /\ cmd = "install" /\ pc = "written"
    /\ \E o \in Orders(tags), p \in [DOMAIN tags.hosts -> SystemPicks(usedPorts)] :
         LET r == GetRouterHostConfig(tags, o, FALSE, FALSE, cfg.AutoAllocatePort,
                                      usedPorts, p)
         IN  ghc' = [called |-> TRUE, err |-> r.err, atun |-> r.atun, router |-> "i-1"]
    /\ pc' = "done"
    /\ UNCHANGED <<cmd, call, flags, cfg, mutated, act, hist, exitCode, Env>>

\* the frame of a function applied on its own
UnitFrame ==
    /\ cfg = UnitConfig
    /\ tags = NoTags
    /\ usedPorts = {}

\* the largest port number CalculateLocalPort accepts
MaxPortNumber == 65535

\* the number of characters of strconv.Itoa(n), n >= 0
RECURSIVE NumDigits(_)
NumDigits(n) == IF n < 10 THEN 1 ELSE 1 + NumDigits(n \div 10)

\* strconv.Atoi(prefix + strconv.Itoa(n)) for a prefix of decimal digits
\* that reads as the number prefix
AtoiPrefixed(prefix, n) == prefix * (10 ^ NumDigits(n)) + n

\* CalculateLocalPort(remotePort)
CalculateLocalPort(remotePort) ==
    IF remotePort <= 0 \/ remotePort > MaxPortNumber
    THEN [port |-> 0, err |-> "invalid port number"]
    ELSE IF NumDigits(remotePort) = 4
    THEN [port |-> AtoiPrefixed(1, remotePort), err |-> ""]
    ELSE IF NumDigits(remotePort) <= 3
    THEN [port |-> AtoiPrefixed(100, remotePort), err |-> ""]
    ELSE [port |-> remotePort, err |-> ""]

InitCalculateLocalPort ==
    /\ cmd = "CalculateLocalPort"
    /\ UnitFrame
    /\ call \in {[NoCall EXCEPT !.arg = p] : p \in 0..(MaxPortNumber + 1)}

CallCalculateLocalPort ==
    /\ cmd = "CalculateLocalPort" /\ pc = "start"
    /\ call' = [call EXCEPT !.fn = "CalculateLocalPort", !.res = CalculateLocalPort(call.arg)]
    /\ pc' = "done"
    /\ UNCHANGED <<cmd, flags, cfg, mutated, ghc, act, hist, exitCode, Env>>

\* the endpoints validateHostConfig is given: every field set or not
CheckedEndpoints ==
    {Endpoint(n, p, r, l) : n \in {"", "a"}, p \in {"", "ssm"}, r \in {-1, 0, 1}, l \in {-1, 0, 1}}

CheckedLists == UNION {[1..k -> CheckedEndpoints] : k \in 0..MaxHosts}

InitValidateHostConfig ==
    /\ cmd = "validateHostConfig"
    /\ cfg \in {[UnitConfig EXCEPT !.Hosts = h] : h \in CheckedLists}
    /\ tags = NoTags
    /\ usedPorts = {}
    /\ call = NoCall

\* CheckConstraints(WithHostConfig())
CallValidateHostConfig ==
    /\ cmd = "validateHostConfig" /\ pc = "start"
    /\ call' = [fn |-> "validateHostConfig", arg |-> cfg.Hosts,
                res |-> CheckConstraints({"hostConfig"}, cfg, "present")]
    /\ pc' = "done"
    /\ UNCHANGED <<cmd, flags, cfg, mutated, ghc, act, hist, exitCode, Env>>

InitIsMFAUpdateRequired ==
    /\ cmd = "isMFAUpdateRequired"
    /\ UnitFrame
    /\ call \in {[NoCall EXCEPT !.arg = [file |-> f, profile |-> "default", now |-> 1]] :
                   f \in CacheFiles}

CallIsMFAUpdateRequired ==
    /\ cmd = "isMFAUpdateRequired" /\ pc = "start"
    /\ call' = [call EXCEPT !.fn = "isMFAUpdateRequired",
                            !.res = isMFAUpdateRequired(call.arg.file, call.arg.profile,
                                                        call.arg.now)]
    /\ pc' = "done"
    /\ UNCHANGED <<cmd, flags, cfg, mutated, ghc, act, hist, exitCode, Env>>

\* the cache files GetSession is run on: none, one without the profile's
\* section, and sections of three, four and five keys
SessionFiles ==
    {f \in CacheFiles :
        "default-mfa" \in DOMAIN f.sections =>
            f.sections["default-mfa"].others \in
                {{}, CredentialKeys, CredentialKeys \cup {"region"}}}

SessionEnvs ==
    [base : {"ok", "error", "no region"}, principal : {"role", "user"},
     devices : {"error", "localhost", "none", "one"}, file : SessionFiles, now : {1},
     token : {"ok", "prompt error", "token error"}, save : BOOLEAN, rebuilt : BOOLEAN]

InitGetSession ==
    /\ cmd = "GetSession"
    /\ UnitFrame
    /\ call \in {[NoCall EXCEPT !.arg = [sc |-> [Profile |-> "default",
                                                  MFASharedCredentialsPath |-> path],
                                          e |-> e]] :
                   path \in {"", "~/.aws/credentials"}, e \in SessionEnvs}

CallGetSession ==
    /\ cmd = "GetSession" /\ pc = "start"
    /\ call' = [call EXCEPT !.fn = "GetSession",
                            !.res = GetSession(call.arg.sc, call.arg.e)]
    /\ mutated' = IF call'.res.file # call.arg.e.file THEN {"credential cache"} ELSE {}
    /\ pc' = "done"
    /\ UNCHANGED <<cmd, flags, cfg, ghc, act, hist, exitCode, Env>>

\* EnsureSSHPublicKeyPresent is called at most MaxCalls times in a run
MaxCalls == 3

\* The options grep knows; it exits 2 on any other, 0 when a line of the
\* file holds the pattern and 1 when none does.
GrepOptions == {"-q", "-R", "-qR", "--quiet", "--recursive"}

RECURSIVE Occurrences(_, _)
Occurrences(file, key) ==
    IF file = <<>> THEN 0
    ELSE (IF Head(file) = key THEN 1 ELSE 0) + Occurrences(Tail(file), key)

grep(option, key, file) ==
    IF option \notin GrepOptions THEN 2
    ELSE IF Occurrences(file, key) > 0 THEN 0 ELSE 1

\* bash -c 'mkdir -p <dir>/.ssh && grep --qR "<key>" <file> || echo "<key>" >> <file>'
\* on the router host: the authorized_keys file after the command
AuthorizedKeysCommand(file, key) ==
    IF grep("--qR", key, file) = 0 THEN file ELSE Append(file, key)

\* the loop of EnsureSSHPublicKeyPresent queries the invocation at most
\* MaxPolls times
MaxPolls == 5

NoOutput == [err |-> FALSE, Status |-> "", set |-> FALSE, ResponseCode |-> 0]

\* What GetCommandInvocation can answer: an error, or a status with a
\* response code; behind a local endpoint the response code is nil.
InvocationOutputs(endpoint) ==
    {[NoOutput EXCEPT !.err = TRUE]}
      \cup (IF endpoint = ""
            THEN [err : {FALSE}, Status : {"InProgress", "Failed", "Success"}, set : {TRUE},
                  ResponseCode : {-1, 0, 1}]
            ELSE [err : {FALSE}, Status : {"InProgress", "Failed", "Success"}, set : {FALSE},
                  ResponseCode : {0}])

\* the loop as it would be without its counter
PollAgainUnbounded(polls, output) ==
    ~(polls > 0 /\ ~output.err /\ output.Status = "Success" /\ output.set)

\* for i := 0; i < 5; i++ { ...; if err == nil && ... { break }; Sleep }:
\* whether another query follows after polls queries, the last answering output
PollAgain(polls, output) ==
    /\ polls < MaxPolls
    /\ ~(polls > 0 /\ ~output.err /\ output.Status = "Success" /\ output.set)

\* what EnsureSSHPublicKeyPresent returns for the last output of the loop:
\* the error of the query, the local endpoint's criteria, the provider's
\* criteria; a nil response code cannot be read
InvocationError(endpoint, output) ==
    IF output.err THEN "can't get command invocation"
    ELSE IF endpoint # ""
    THEN IF output.Status # "Success" THEN "command failed" ELSE ""
    ELSE IF ~output.set THEN "panic"
    ELSE IF output.ResponseCode # 0 /\ output.Status # "Success"
    THEN "command failed with exit code"
    ELSE ""

InitEnsureSSHPublicKeyPresent ==
    /\ cmd = "EnsureSSHPublicKeyPresent"
    /\ UnitFrame
    /\ call \in {[NoCall EXCEPT !.arg = [publicKey |-> "key", before |-> file,
                                         endpoint |-> endpoint],
                                 !.res = [file |-> file, err |-> "", calls |-> 0, polls |-> 0,
                                          sleeps |-> 0, output |-> NoOutput,
                                          returned |-> FALSE]] :
                   file \in {<<>>, <<"other">>, <<"key">>, <<"other", "key">>},
                   endpoint \in {"", "http://localhost:4566"}}

\* EnsureSSHPublicKeyPresent(instanceID, publicKey, routerHostUser): the
\* command is sent
CallEnsureSSHPublicKeyPresent ==
    /\ cmd = "EnsureSSHPublicKeyPresent" /\ pc = "start"
    /\ call.res.calls < MaxCalls
    /\ \E send \in {"error", "ok"} :
         /\ call' = [call EXCEPT
                       !.fn = "EnsureSSHPublicKeyPresent",
                       !.res = [@ EXCEPT !.err = IF send = "error"
                                                 THEN "can't send SSH public publicKey"
                                                 ELSE "",
                                         !.polls = 0, !.sleeps = 0, !.output = NoOutput,
                                         !.returned = (send = "error")]]
         /\ pc' = IF send = "error" THEN "start" ELSE "poll"
    /\ UNCHANGED <<cmd, flags, cfg, mutated, ghc, act, hist, exitCode, Env>>

\* one turn of the loop: GetCommandInvocation, then break or sleep 2 seconds
PollCommandInvocation ==
    /\ cmd = "EnsureSSHPublicKeyPresent" /\ pc = "poll"
    /\ PollAgain(call.res.polls, call.res.output)
    /\ \E output \in InvocationOutputs(call.arg.endpoint) :
         call' = [call EXCEPT
                    !.res = [@ EXCEPT !.polls = @ + 1, !.output = output,
                                      !.sleeps = IF ~output.err /\ output.Status = "Success"
                                                    /\ output.set
                                                 THEN @ ELSE @ + 1]]
    /\ UNCHANGED <<cmd, pc, flags, cfg, mutated, ghc, act, hist, exitCode, Env>>

\* after the loop: the function returns; the command has run on the router
\* when its invocation reports Success
ReturnEnsureSSHPublicKeyPresent ==
    /\ cmd = "EnsureSSHPublicKeyPresent" /\ pc = "poll"
    /\ ~PollAgain(call.res.polls, call.res.output)
    /\ LET err == InvocationError(call.arg.endpoint, call.res.output)
       IN  call' = [call EXCEPT
                      !.res = [@ EXCEPT
                                 !.err = err,
                                 !.returned = TRUE,
                                 !.calls = IF err = "" THEN @ + 1 ELSE @,
                                 !.file = IF ~call.res.output.err
                                             /\ call.res.output.Status = "Success"
                                          THEN AuthorizedKeysCommand(@, call.arg.publicKey)
                                          ELSE @]]
    /\ pc' = "start"
    /\ UNCHANGED <<cmd, flags, cfg, mutated, ghc, act, hist, exitCode, Env>>

\* constraints.IsCI(): one of the CI variables is set in the environment
ciEnvs == {"CI", "GITHUB_ACTIONS", "CIRCLECI", "GITLAB_CI", "CODEBUILD_BUILD_ID"}

IsCI(environ) == environ \cap ciEnvs # {}

\* constraints.SupportsANSIEscapeCodes(): the escape sequence could be
\* written to standard output
SupportsANSIEscapeCodes(terminal) == terminal.stdoutWritable

\* constraints.IsInteractiveTerminal(): standard input is a terminal
IsInteractiveTerminal(terminal) == terminal.stdinIsTerminal

\* initializeAtun(): LoadConfig, the tunnel directory, the plain-text
\* override, MkdirAll
initializeAtun(configured, terminal, environ, load, mkdir) ==
    IF load = "error" THEN [outcome |-> "panic", LogPlainText |-> configured]
    ELSE LET plain == IF ~SupportsANSIEscapeCodes(terminal) \/ IsCI(environ)
                      THEN TRUE
                      ELSE configured
         IN  [outcome |-> IF mkdir = "error" THEN "fatal" ELSE "ok", LogPlainText |-> plain]

InitInitializeAtun ==
    /\ cmd = "initializeAtun"
    /\ UnitFrame
    /\ call \in {[NoCall EXCEPT !.arg = [configured |-> configured,
                                          terminal |-> [stdinIsTerminal |-> stdin,
                                                        stdoutWritable |-> stdout],
                                          environ |-> environ]] :
                   configured \in BOOLEAN, stdin \in BOOLEAN, stdout \in BOOLEAN,
                   environ \in SUBSET (ciEnvs \cup {"TERM"})}

CallInitializeAtun ==
    /\ cmd = "initializeAtun" /\ pc = "start"
    /\ \E load \in {"ok", "error"}, mkdir \in {"ok", "error"} :
         call' = [call EXCEPT !.fn = "initializeAtun",
                             !.res = initializeAtun(call.arg.configured, call.arg.terminal,
                                                    call.arg.environ, load, mkdir)]
    /\ pc' = "done"
    /\ UNCHANGED <<cmd, flags, cfg, mutated, ghc, act, hist, exitCode, Env>>

\* viper.SafeWriteConfigAs(configFilePath): a file that exists is left alone
\* and reported, either by viper's own ConfigFileAlreadyExistsError or, when
\* the file appeared between viper's test and its exclusive open, by the
\* system's EEXIST; a file that does not exist is written or the write fails.
SafeWriteConfigAs(file, snapshot, write) ==
    IF file.exists
    THEN [file |-> file,
          err |-> IF write = "EEXIST" THEN "EEXIST" ELSE "ConfigFileAlreadyExistsError"]
    ELSE IF write = "error" THEN [file |-> file, err |-> "write error"]
    ELSE [file |-> [exists |-> TRUE, content |-> snapshot], err |-> ""]

InitSaveConfig ==
    /\ cmd = "SaveConfig"
    /\ UnitFrame
    /\ call \in {[NoCall EXCEPT !.arg = [file |-> file,
                                          snapshot |-> [router_subnet_id |-> subnet,
                                                        hosts |-> hosts]]] :
                   file \in {[exists |-> FALSE,
                              content |-> [router_subnet_id |-> "", hosts |-> <<>>]],
                             [exists |-> TRUE,
                              content |-> [router_subnet_id |-> "subnet-0", hosts |-> <<>>]]},
                   subnet \in {"", "subnet-1"}, hosts \in UserHosts}

\* config.SaveConfig(): os.Getwd, the two viper.Set calls, SafeWriteConfigAs;
\* os.IsExist recognises the system's EEXIST and nothing else
CallSaveConfig ==
    /\ cmd = "SaveConfig" /\ pc = "start"
    /\ \E getwd \in {"ok", "error"}, write \in {"ok", "EEXIST", "error"} :
         LET w == SafeWriteConfigAs(call.arg.file, call.arg.snapshot, write)
         IN  call' = [call EXCEPT
                        !.fn = "SaveConfig",
                        !.res = IF getwd = "error"
                                THEN [file |-> call.arg.file, err |-> "getwd", warned |-> FALSE]
                                ELSE IF w.err = ""
                                THEN [file |-> w.file, err |-> "", warned |-> FALSE]
                                ELSE IF w.err = "EEXIST"
                                THEN [file |-> w.file, err |-> "", warned |-> TRUE]
                                ELSE [file |-> w.file, err |-> w.err, warned |-> FALSE]]
    /\ pc' = "done"
    /\ UNCHANGED <<cmd, flags, cfg, mutated, ghc, act, hist, exitCode, Env>>

\* the tags of t whose key starts with atun.io/, as router uninstall
\* collects them: none are left after DeleteTags
atunTags(t) ==
    [version |-> t.version, env |-> t.env, hosts |-> t.hosts,
     other |-> t.other \cap {"atun.io/owner"}]

\* router uninstall on an instance with or without atun.io tags, and with a
\* tag outside atun.io
InitUninstall ==
    /\ cmd = "uninstall"
    /\ cfg \in {[UnitConfig EXCEPT !.RouterHostID = r, !.Env = e] :
                  r \in {"", "i-1", "i-2"}, e \in {"dev", ""}}
    /\ tags \in {[t EXCEPT !.other = o] :
                   t \in TagMaps \cup {NoTags}, o \in {{"Name"}, {"Name", "atun.io/owner"}}}
    /\ usedPorts = {}
    /\ call = NoCall

\* router uninstall --router <id>: constraint checks, authentication, the
\* instance is looked up, its atun.io tags are deleted, the configured router
\* id is cleared
RouterUninstall ==
    /\ cmd = "uninstall" /\ pc = "start"
    /\ \E session \in {"ok", "fail"}, router \in {"", "i-1", "i-0"}, deleted \in BOOLEAN :
         LET err == CheckConstraints({"awsProfile", "env"}, cfg, "present")
             known == \E i \in 1..Len(instances) : instances[i].id = router
         IN  IF err # "" THEN /\ Exit(1, "error", [hist EXCEPT !.constraintFailed = TRUE])
                              /\ UNCHANGED <<cfg, tags, mutated, flags>>
             ELSE IF InitAWSClientsExits(cfg, session)
             THEN Exit(1, "fatal", hist) /\ UNCHANGED <<cfg, tags, mutated, flags>>
             ELSE /\ flags' = [flags EXCEPT !.router = router]
                  /\ IF router = "" \/ ~known
                     THEN Exit(1, "error", hist) /\ UNCHANGED <<cfg, tags, mutated>>
                     ELSE IF atunTags(tags) = NoTags
                     THEN Exit(0, "warning", hist) /\ UNCHANGED <<cfg, tags, mutated>>
                     ELSE IF ~deleted
                     THEN Exit(1, "error", hist) /\ UNCHANGED <<cfg, tags, mutated>>
                     ELSE /\ tags' = [NoTags EXCEPT !.other = tags.other \ atunTags(tags).other]
                          /\ cfg' = [cfg EXCEPT !.RouterHostID = IF @ = router THEN "" ELSE @]
                          /\ mutated' = mutated \cup {"tags"}
                          /\ Exit(0, "ok", hist)
    /\ call' = [call EXCEPT !.fn = "router uninstall",
                            !.arg = [tags |-> tags, RouterHostID |-> cfg.RouterHostID]]
    /\ UNCHANGED <<cmd, instances, usedPorts, tunnelUp, ssmRunning, keyAuthorized,
                   sessionRecord, ghc, act>>

\* the ticker of WaitForInstanceReady fires every 10 seconds and the timeout
\* after 5 minutes, that is with the TimeoutTicks-th tick
TimeoutTicks == 30

InitWaitForInstanceReady ==
    /\ cmd = "WaitForInstanceReady"
    /\ UnitFrame
    /\ call \in {[NoCall EXCEPT !.arg = [AWSEndpointUrl |-> endpoint],
                                 !.res = [ticks |-> 0, polls |-> 0, slept |-> 0,
                                          running |-> FALSE, ping |-> "", err |-> "",
                                          returned |-> FALSE]] :
                   endpoint \in {"", "http://localhost:4566", "http://127.0.0.1:4566"}}

\* WaitForInstanceReady(instanceID) up to its loop: the endpoint that names
\* localhost is not asked and the function sleeps 5 seconds; otherwise the
\* EC2 client is made and WaitUntilInstanceRunning is awaited
CallWaitForInstanceReady ==
    /\ cmd = "WaitForInstanceReady" /\ pc = "start"
    /\ \E client \in {"ok", "error"}, running \in BOOLEAN :
         /\ call' = [call EXCEPT
                       !.fn = "WaitForInstanceReady",
                       !.res = IF call.arg.AWSEndpointUrl = "http://localhost:4566"
                               THEN [@ EXCEPT !.slept = 5, !.returned = TRUE]
                               ELSE IF client = "error"
                               THEN [@ EXCEPT !.err = "client", !.returned = TRUE]
                               ELSE IF ~running
                               THEN [@ EXCEPT !.err = "not running", !.returned = TRUE]
                               ELSE [@ EXCEPT !.running = TRUE]]
         /\ pc' = IF call'.res.returned THEN "done" ELSE "select"
    /\ UNCHANGED <<cmd, flags, cfg, mutated, ghc, act, hist, exitCode, Env>>

\* one select of the loop: the timeout is ready from the TimeoutTicks-th tick
\* on, a tick is ready until then; a tick asks for the agent's ping status
SelectWaitForInstanceReady ==
    /\ cmd = "WaitForInstanceReady" /\ pc = "select"
    /\ \/ /\ call.res.ticks >= TimeoutTicks - 1
          /\ call' = [call EXCEPT !.res = [@ EXCEPT !.err = "timeout", !.returned = TRUE,
                                                    !.ticks = TimeoutTicks]]
          /\ pc' = "done"
       \/ /\ call.res.ticks < TimeoutTicks
          /\ \E ping \in {"error", "none", "Inactive", "Online"} :
               /\ call' = [call EXCEPT
                             !.res = [@ EXCEPT !.ticks = @ + 1, !.polls = @ + 1,
                                               !.ping = ping,
                                               !.err = IF ping = "error"
                                                       THEN "error describing instance information"
                                                       ELSE "",
                                               !.returned = ping \in {"error", "Online"}]]
               /\ pc' = IF ping \in {"error", "Online"} THEN "done" ELSE "select"
    /\ UNCHANGED <<cmd, flags, cfg, mutated, ghc, act, hist, exitCode, Env>>

\* GetRouterHostIDFromTags on its own: the router ids of the tunnels that
\* run locally, the configured router id, the instances of the account
InitGetRouterHostIDFromTags ==
    /\ cmd = "GetRouterHostIDFromTags"
    /\ UnitFrame
    /\ call \in {[NoCall EXCEPT !.arg = [activeSSHTunnels |-> active, RouterHostID |-> r,
                                          instances |-> insts]] :
                   active \in SUBSET {"i-1", "i-2"}, r \in {"", "i-1", "i-2"},
                   insts \in {<<>>, <<Instance("i-1", "running")>>,
                              <<Instance("i-2", "stopped"), Instance("i-1", "running")>>,
                              <<Instance("i-1", "running"), Instance("i-2", "running")>>}}

\* the tunnels owned by the configured router are collected and only logged;
\* the result comes from the tagged instances
CallGetRouterHostIDFromTags ==
    /\ cmd = "GetRouterHostIDFromTags" /\ pc = "start"
    /\ \E tunnelsErr \in BOOLEAN, listErr \in BOOLEAN :
         call' = [call EXCEPT
                    !.fn = "GetRouterHostIDFromTags",
                    !.res = GetRouterHostIDFromTags(call.arg.instances, tunnelsErr, listErr)]
    /\ pc' = "done"
    /\ UNCHANGED <<cmd, flags, cfg, mutated, ghc, act, hist, exitCode, Env>>

\* the animation draws at most MaxFrames frames in a run
MaxFrames == 3

InitVersion ==
    /\ cmd = "version"
    /\ UnitFrame
    /\ call \in {[NoCall EXCEPT !.arg = [terminal |-> [stdinIsTerminal |-> TRUE,
                                                        stdoutWritable |-> stdout],
                                          environ |-> environ],
                                 !.res = [animation |-> "none", ctxDone |-> FALSE,
                                          frames |-> 0, framesAfterCancel |-> 0,
                                          interrupted |-> FALSE]] :
                   stdout \in BOOLEAN, environ \in {{}, {"CI"}}}

\* version: plain-text logging is set from the terminal; on a capable
\* terminal the goroutine of the animation is started and the command waits
\* in its select
VersionRun ==
    /\ cmd = "version" /\ pc = "start"
    /\ call' = [call EXCEPT !.fn = "version",
                            !.res = IF ~SupportsANSIEscapeCodes(call.arg.terminal)
                                       \/ IsCI(call.arg.environ)
                                    THEN @
                                    ELSE [@ EXCEPT !.animation = "running"]]
    /\ pc' = IF call'.res.animation = "running" THEN "select" ELSE "done"
    /\ UNCHANGED <<cmd, flags, cfg, mutated, ghc, act, hist, exitCode, Env>>

\* RenderAsciiArt: one turn of its loop, which reads two tickers and nothing
\* else; the goroutine runs until the process ends
RenderAsciiArt ==
    /\ cmd = "version" /\ pc \in {"select", "return"}
    /\ call.res.animation = "running"
    /\ call.res.frames < MaxFrames
    /\ call' = [call EXCEPT !.res = [@ EXCEPT !.frames = @ + 1,
                                              !.framesAfterCancel =
                                                  IF call.res.ctxDone THEN @ + 1 ELSE @]]
    /\ UNCHANGED <<cmd, pc, flags, cfg, mutated, ghc, act, hist, exitCode, Env>>

\* the select of version: an interrupt arrives on c and cancel() is called
\* (ctx.Done() is closed by nothing else, RenderAsciiArt never returning);
\* then Run returns and the process ends
VersionSelect ==
    /\ cmd = "version"
    /\ \/ /\ pc = "select"
          /\ call' = [call EXCEPT !.res = [@ EXCEPT !.interrupted = TRUE, !.ctxDone = TRUE]]
          /\ pc' = "return"
       \/ /\ pc = "return"
          /\ call' = [call EXCEPT !.res = [@ EXCEPT !.animation = "ended"]]
          /\ pc' = "done"
    /\ UNCHANGED <<cmd, flags, cfg, mutated, ghc, act, hist, exitCode, Env>>

\* ActivateTunnel as it would be if the tunnel were started without asking
\* for the plugin
ActivateTunnelStepNoPluginCheck(phase, up, ssm, err) ==
    IF err THEN "failed"
    ELSE IF phase = "status" THEN (IF up THEN "recheck" ELSE "start")
    ELSE IF phase = "plugin" THEN (IF ssm THEN "failed" ELSE "start")
    ELSE IF phase = "start" THEN "recheck"
    ELSE "returned"

\* ActivateTunnel one call at a time: where it goes from the liveness check,
\* the plugin check, the start and the second liveness check, given what the
\* call found and whether it failed (the second check never fails the
\* function)
ActivateTunnelStep(phase, up, ssm, err) ==
    IF phase = "recheck" THEN "returned"
    ELSE IF err THEN "failed"
    ELSE IF phase = "status" THEN (IF up THEN "recheck" ELSE "plugin")
    ELSE IF phase = "plugin" THEN (IF ssm THEN "failed" ELSE "start")
    ELSE "recheck"

\* two invocations of up at ActivateTunnel, on the same router and tunnel
\* directory
InitConcurrentUp ==
    /\ cmd = "up, up"
    /\ UnitFrame
    /\ call = [NoCall EXCEPT !.res = [phase |-> <<"status", "status">>,
                                      sawDown |-> <<FALSE, FALSE>>,
                                      sawNoPlugin |-> <<FALSE, FALSE>>,
                                      starts |-> <<0, 0>>]]

\* one of the two invocations makes its next call; nothing orders the calls
\* of one invocation with those of the other
ConcurrentUp ==
    /\ cmd = "up, up"
    /\ \E p \in {1, 2}, fail \in BOOLEAN, launch \in {"alive", "gone", "fail"} :
         LET phase == call.res.phase[p]
             s == GetSSHTunnelStatus(tunnelUp, fail)
             plugin == GetSSMPluginStatus(ssmRunning, fail)
             started == StartSSHTunnel(TRUE, launch)
             err == IF phase = "start" THEN started.err ELSE fail
         IN  /\ phase \in {"status", "plugin", "start", "recheck"}
             /\ call' = [call EXCEPT
                           !.fn = "up, up",
                           !.res = [@ EXCEPT
                              !.phase[p] = ActivateTunnelStep(phase, s.up, plugin.running, err),
                              !.sawDown[p] = @ \/ (phase = "status" /\ ~s.err /\ ~s.up),
                              !.sawNoPlugin[p] =
                                  @ \/ (phase = "plugin" /\ ~plugin.err /\ ~plugin.running),
                              !.starts[p] = IF phase = "start" THEN @ + 1 ELSE @]]
             /\ tunnelUp' = IF phase = "start" /\ ~started.err THEN started.up ELSE tunnelUp
    /\ UNCHANGED <<cmd, pc, flags, cfg, mutated, ghc, act, hist, exitCode, instances, tags,
                   usedPorts, ssmRunning, keyAuthorized, sessionRecord>>

InitUnit ==
    /\ InitUnitFixed
    /\ \/ InitInstall
       \/ InitCalculateLocalPort
       \/ InitValidateHostConfig
       \/ InitIsMFAUpdateRequired
       \/ InitGetSession
       \/ InitEnsureSSHPublicKeyPresent
       \/ InitInitializeAtun
       \/ InitSaveConfig
       \/ InitUninstall
       \/ InitWaitForInstanceReady
       \/ InitGetRouterHostIDFromTags
       \/ InitVersion
       \/ InitConcurrentUp

NextUnit ==
    \/ RouterInstall
    \/ StackSynthesis
    \/ ParseBack
    \/ CallCalculateLocalPort
    \/ CallValidateHostConfig
    \/ CallIsMFAUpdateRequired
    \/ CallGetSession
    \/ CallEnsureSSHPublicKeyPresent
    \/ PollCommandInvocation
    \/ ReturnEnsureSSHPublicKeyPresent
    \/ CallInitializeAtun
    \/ CallSaveConfig
    \/ RouterUninstall
    \/ CallWaitForInstanceReady
    \/ SelectWaitForInstanceReady
    \/ CallGetRouterHostIDFromTags
    \/ VersionRun
    \/ RenderAsciiArt
    \/ VersionSelect
    \/ ConcurrentUp

SpecUnit == InitUnit /\ [][NextUnit]_vars

\* ------------------------------------------------------------------------
\* Properties
\* ------------------------------------------------------------------------

\* the names of the host tags that decode, and of those that do not
WellFormed(t) == {n \in DOMAIN t.hosts : t.hosts[n].kind = "object"}

Malformed(t) == {n \in DOMAIN t.hosts : t.hosts[n].kind # "object"}

\* the call of GetRouterHostConfig got the tags and the login user, and so
\* ran the loop over the tags
ParsedTags == ghc.called /\ ghc.err \notin {"tags", "username"}

\* C1: ActivateTunnel calls StartSSHTunnel only when the tunnel was down and
\* no SSM plugin ran on its own; with the tunnel down and the plugin seen
\* running it returns the conflicting-state error and starts nothing; with
\* the tunnel up it starts nothing.
C1_StartOnlyWhenDownAndNoPlugin ==
    act.op = "activate" =>
        /\ act.startCalled => ~act.preUp /\ ~act.preSSM
        /\ (~act.preUp /\ act.preSSM) => ~act.startCalled /\ act.err # ""
        /\ (~act.preUp /\ act.preSSM /\ act.reached = "plugin" /\ act.sawSSM) =>
               act.err = "Tunnel is down but SSM plugin is already running"
        /\ act.sawSSM => ~act.preUp /\ act.preSSM
        /\ act.preUp => ~act.startCalled

C1_Witness ==
    /\ act.op = "activate" /\ act.startCalled /\ act.err = "" /\ act.tunnelIsUp
    /\ ~act.preUp /\ ~act.preSSM

\* C2: `up` activates at most twice; the key is put on the router at most
\* once and only after the first activation failed; a second activation
\* happens only after that key push; a failed retry ends the process with
\* exit code 1; a run that pushed the key and ended made exactly two attempts.
C2_RetryOnceAfterKeyPush ==
    cmd = "up" =>
        /\ hist.attempts <= 2
        /\ hist.keyPushes <= 1
        /\ hist.keyPushes = 1 => hist.firstFailed /\ hist.attempts >= 1
        /\ hist.attempts = 2 => hist.firstFailed /\ hist.keyPushes = 1
        /\ hist.retryFailed => hist.attempts = 2 /\ pc = "done" /\ exitCode = 1
        /\ (hist.keyPushes = 1 /\ pc = "done") => hist.attempts = 2
        /\ (hist.firstFailed /\ pc = "done" /\ exitCode = 0) =>
               hist.attempts = 2 /\ ~hist.retryFailed

C2_Witness ==
    /\ cmd = "up" /\ hist.firstFailed /\ hist.keyPushes = 1 /\ hist.attempts = 2
    /\ hist.retryFailed /\ exitCode = 1

\* C3: in `up`, routerCreateCmd.RunE is called only if the user confirmed
\* the creation or --create was given.
C3_CreateOnlyOnConsent ==
    (cmd = "up" /\ hist.creates > 0) => (flags.create \/ flags.answer)

\* C4: in `up` without --router and --create on a non-interactive terminal,
\* a discovery miss ends the command with an error: nothing is asked,
\* nothing is created and no activation is attempted.
C4_NonInteractiveMissIsFatal ==
    (cmd = "up" /\ hist.discoveryMiss /\ flags.router = "" /\ ~flags.create
       /\ ~flags.interactive) =>
        /\ pc = "done" /\ exitCode = 1
        /\ hist.prompts = 0 /\ hist.creates = 0 /\ hist.attempts = 0
        /\ ~ghc.called /\ "infrastructure" \notin mutated /\ "tunnel" \notin mutated

C4_Witness ==
    /\ cmd = "up" /\ hist.discoveryMiss /\ flags.router = "" /\ ~flags.create
    /\ ~flags.interactive /\ pc = "done" /\ exitCode = 1 /\ hist.outcome = "error"

\* C5: in `down` without --router, when a session is recorded locally, tag
\* discovery is not used and the router deactivated is the recorded one.
C5_RecordedRouterIsDeactivated ==
    (cmd = "down" /\ flags.router = "" /\ hist.recovered # "") =>
        /\ hist.discoveries = 0
        /\ hist.deactivated # "" => hist.deactivated = hist.recovered

\* C6: DeactivateTunnel returns an error only when the stop itself failed;
\* failed terminations are never returned; the liveness it returns is the
\* one the check after the cleanup observed; and `down` goes on from every
\* deactivation to its final liveness check and ends with exit code 0.
C6_DeactivateReportsFinalState ==
    act.op = "deactivate" =>
        /\ act.err # "" <=> act.reached = "stop"
        /\ act.reached = "recheck" =>
               /\ act.err = ""
               /\ act.tunnelIsUp => act.postUp
               /\ ~act.checkErr => act.tunnelIsUp = act.postUp
        /\ act.termErrs # {} => act.err = "" /\ act.reached = "recheck"
        /\ pc \in {"d_final", "done"}
        /\ pc = "d_final" => ENABLED DownFinal
        /\ pc = "done" => hist.finalChecked /\ exitCode = 0

C6_Witness ==
    /\ act.op = "deactivate" /\ act.termErrs = {"ssh", "ssm"} /\ act.err = ""
    /\ act.tunnelIsUp /\ pc = "done" /\ hist.finalChecked

\* C7: when a command's own constraint check fails, the run has written no
\* configuration file and no credential cache, applied no infrastructure and
\* started no tunnel.
C7_FailedCheckMutatesNothing ==
    (hist.constraintFailed /\ hist.creates = 0) =>
        mutated \cap {"config file", "credential cache", "infrastructure", "tunnel"} = {}

\* C8: once `up`, `down` or `status` has taken the fetched router config, the
\* endpoints of the configuration are exactly the ones decoded from the
\* router's host tags: one per host tag that decodes, with the tag's name,
\* protocol and remote port, and the tag's local port (or an allocated one
\* when the tag says 0).
DecodedFrom(h, t) ==
    /\ h.Name \in WellFormed(t)
    /\ h.Proto = t.hosts[h.Name].proto
    /\ h.Remote = t.hosts[h.Name].remote
    /\ IF t.hosts[h.Name].local # 0 THEN h.Local = t.hosts[h.Name].local
       ELSE h.Local \in Ports

C8_EndpointsAreTheRouters ==
    hist.replaced =>
        /\ Len(cfg.Hosts) = Cardinality(WellFormed(tags))
        /\ {cfg.Hosts[i].Name : i \in 1..Len(cfg.Hosts)} = WellFormed(tags)
        /\ \A i \in 1..Len(cfg.Hosts) : DecodedFrom(cfg.Hosts[i], tags)

C8_Witness ==
    /\ hist.replaced /\ hist.hadHosts /\ cmd = "up" /\ WellFormed(tags) = {"a", "b"}
    /\ Len(cfg.Hosts) = 2 /\ Malformed(tags) = {}

\* C9: when the tag loop of GetRouterHostConfig runs over host tags of which
\* at least one does not decode and the decodable ones have non-zero local
\* ports, the call returns no error and the endpoints are exactly the
\* decodable ones.
C9_MalformedTagsAreSkipped ==
    (ParsedTags /\ Malformed(tags) # {}
       /\ \A n \in WellFormed(tags) : tags.hosts[n].local # 0) =>
        /\ ghc.err = ""
        /\ ~ghc.atun.ConfigNil
        /\ Len(ghc.atun.Hosts) = Cardinality(WellFormed(tags))
        /\ {ghc.atun.Hosts[i] : i \in 1..Len(ghc.atun.Hosts)} =
               {Endpoint(n, tags.hosts[n].proto, tags.hosts[n].remote, tags.hosts[n].local) :
                  n \in WellFormed(tags)}

C9_Witness ==
    /\ ParsedTags /\ Malformed(tags) # {} /\ WellFormed(tags) # {}
    /\ \A n \in WellFormed(tags) : tags.hosts[n].local # 0
    /\ ghc.err = "" /\ Len(ghc.atun.Hosts) = 1

\* the decodable host tags that ask for a local port
ZeroLocal(t) == {n \in WellFormed(t) : t.hosts[n].local = 0}

\* every endpoint whose tag says local 0 has a port that was free
AllocatedBindable ==
    \A i \in 1..Len(ghc.atun.Hosts) :
        ghc.atun.Hosts[i].Name \in ZeroLocal(tags) =>
            ghc.atun.Hosts[i].Local \in Ports \ usedPorts

\* C10 as stated: with a decodable tag of local 0, parsing fails with the
\* allocation error when AUTO_ALLOCATE_PORT is false, and succeeds with a
\* bindable port when it is true.
C10_AsStated ==
    (ParsedTags /\ ZeroLocal(tags) # {}) =>
        IF cfg.AutoAllocatePort
        THEN ghc.err = "" /\ AllocatedBindable
        ELSE ghc.err = "can't allocate port"

\* C10: with a decodable tag of local 0, parsing fails with the allocation
\* error when AUTO_ALLOCATE_PORT is false; when it is true parsing never
\* fails with that error: it succeeds with a port that was bindable when it
\* was allocated, or, when the system has no port to give, returns the error
\* of the listen.
C10_AllocateOrFail ==
    (ParsedTags /\ ZeroLocal(tags) # {}) =>
        IF cfg.AutoAllocatePort
        THEN \/ ghc.err = "" /\ AllocatedBindable
             \/ ghc.err = "listen" /\ Ports \ usedPorts = {} /\ ghc.atun.ConfigNil
        ELSE ghc.err = "can't allocate port" /\ ghc.atun.ConfigNil

C10_Witness ==
    /\ ParsedTags /\ cfg.AutoAllocatePort /\ ghc.err = ""
    /\ \E i \in 1..Len(ghc.atun.Hosts) :
         /\ ghc.atun.Hosts[i].Name \in ZeroLocal(tags)
         /\ ghc.atun.Hosts[i].Local \in Ports \ usedPorts

\* the endpoints a round trip is stated for: named, remote and local set
RoundTrips(h) == h.Name # "" /\ h.Remote > 0 /\ h.Local > 0

C12_FiveDigitLocalPort ==
    (call.fn = "CalculateLocalPort" /\ 0 < call.arg /\ call.arg <= MaxPortNumber) =>
        /\ call.res.err = ""
        /\ NumDigits(call.res.port) = 5
        /\ NumDigits(call.arg) = 4 => call.res.port = AtoiPrefixed(1, call.arg)
        /\ NumDigits(call.arg) <= 3 => call.res.port = AtoiPrefixed(100, call.arg)
        /\ NumDigits(call.arg) = 5 => call.res.port = call.arg

\* the defects validateHostConfig names, and the message of each
Defects == {"name", "remote", "local", "proto"}

HasDefect(h, d) ==
    CASE d = "name" -> h.Name = ""
      [] d = "remote" -> h.Remote <= 0
      [] d = "local" -> h.Local < 0
      [] d = "proto" -> h.Proto = ""

DefectMessage(d) ==
    CASE d = "name" -> "Endpoint Name is not set"
      [] d = "remote" -> "Endpoint Remote port is not set"
      [] d = "local" -> "Endpoint Local port is not set"
      [] d = "proto" -> "Endpoint Protocol is not set"

\* C13: the WithHostConfig check refuses the empty list, and every list that
\* holds an endpoint with no name, remote <= 0, local < 0 or no protocol, with
\* a message that names a field some endpoint of the list has wrong (the
\* field, when only one is wrong); the messages differ from each other; every
\* other list is accepted.
C13_ValidateHostConfig ==
    call.fn = "validateHostConfig" =>
        LET hosts == call.arg
            bad(d) == \E i \in 1..Len(hosts) : HasDefect(hosts[i], d)
        IN  /\ Len(hosts) = 0 => call.res = "endpoints config is not set"
            /\ call.res = "" <=> (Len(hosts) > 0 /\ \A d \in Defects : ~bad(d))
            /\ (Len(hosts) > 0 /\ call.res # "") =>
                   \E d \in Defects : bad(d) /\ call.res = DefectMessage(d)
            /\ \A d \in Defects :
                   (bad(d) /\ \A e \in Defects \ {d} : ~bad(e)) => call.res = DefectMessage(d)
            /\ Cardinality({DefectMessage(d) : d \in Defects}
                             \cup {"endpoints config is not set", ""}) = 6

C13_Witness ==
    /\ call.fn = "validateHostConfig" /\ Len(call.arg) = 2
    /\ call.arg[1].Local = 0 /\ call.arg[2].Local = -1
    /\ call.res = "Endpoint Local port is not set"

\* the profile's section of the cache file holds exactly four keys, one of
\* them an expiration that parses
WellFormedSection(file, profile) ==
    /\ file.exists
    /\ MFAProfile(profile) \in DOMAIN file.sections
    /\ KeyCount(file.sections[MFAProfile(profile)]) = 4
    /\ file.sections[MFAProfile(profile)].exp.set
    /\ file.sections[MFAProfile(profile)].exp.parses

\* C14 as stated: isMFAUpdateRequired returns false only for a well-formed
\* section whose expiration is in the future, and true for a missing file, a
\* missing section, a section of other than four keys, an expiration that
\* does not parse and an expiration in the past.
C14_AsStated ==
    call.fn = "isMFAUpdateRequired" =>
        LET file == call.arg.file
            profile == call.arg.profile
            exp == file.sections[MFAProfile(profile)].exp
        IN  call.res = FALSE <=>
                (WellFormedSection(file, profile) /\ exp.time > call.arg.now)

\* C14: isMFAUpdateRequired returns true for a missing file, a missing
\* section, a section of other than four keys, an expiration that does not
\* parse and an expiration before the current time; it returns false only for
\* a well-formed section whose expiration is not before the current time.
C14_FreshOnlyIfWellFormedAndNotExpired ==
    call.fn = "isMFAUpdateRequired" =>
        LET file == call.arg.file
            profile == call.arg.profile
            exp == file.sections[MFAProfile(profile)].exp
        IN  /\ ~file.exists => call.res
            /\ (file.exists /\ MFAProfile(profile) \notin DOMAIN file.sections) => call.res
            /\ (file.exists /\ MFAProfile(profile) \in DOMAIN file.sections) =>
                   /\ KeyCount(file.sections[MFAProfile(profile)]) # 4 => call.res
                   /\ ~exp.parses => call.res
                   /\ (exp.parses /\ exp.time < call.arg.now) => call.res
            /\ call.res = FALSE <=>
                   (WellFormedSection(file, profile) /\ exp.time >= call.arg.now)

C14_Witness ==
    /\ call.fn = "isMFAUpdateRequired" /\ call.res = FALSE
    /\ WellFormedSection(call.arg.file, call.arg.profile)
    /\ call.arg.file.sections["default-mfa"].exp.time > call.arg.now

\* the file GetSession reads at the configured MFA cache path
CacheAtPath(arg) == IF arg.sc.MFASharedCredentialsPath = "" THEN MissingFile ELSE arg.e.file

\* C15: when the caller is a user with an MFA device and the cached section
\* is stale or absent, the cache file not existing yet included, and every
\* call GetSession makes outside succeeds, GetSession prompts for the code,
\* mints credentials, writes them to the cache file and returns a session of
\* the profile's MFA section.
C15_StaleCacheIsRefreshed ==
    (/\ call.fn = "GetSession"
     /\ SessionOK(call.arg.e)
     /\ call.arg.e.principal = "user" /\ call.arg.e.devices = "one"
     /\ call.arg.sc.MFASharedCredentialsPath # ""
     /\ isMFAUpdateRequired(CacheAtPath(call.arg), call.arg.sc.Profile, call.arg.e.now))
        => /\ call.res.err = ""
           /\ call.res.prompted /\ call.res.minted
           /\ call.res.file.exists
           /\ MFAProfile(call.arg.sc.Profile) \in DOMAIN call.res.file.sections
           /\ CredentialKeys \subseteq
                  call.res.file.sections[MFAProfile(call.arg.sc.Profile)].others
           /\ call.res.file.sections[MFAProfile(call.arg.sc.Profile)].exp.time > call.arg.e.now
           /\ call.res.profile = MFAProfile(call.arg.sc.Profile)

\* C16: EnsureSSHPublicKeyPresent appends the key to authorized_keys only
\* when the file does not hold it, and after any number of successful calls
\* the file holds the key exactly once.
C16_KeyPresentExactlyOnce ==
    (call.fn = "EnsureSSHPublicKeyPresent" /\ call.res.calls > 0) =>
        /\ Occurrences(call.res.file, call.arg.publicKey) = 1
        /\ Occurrences(call.arg.before, call.arg.publicKey) = 1 =>
               call.res.file = call.arg.before

\* C17: in `router create`, once the wait for the instance to be ready has
\* failed or timed out, the command neither reports the router as ready nor
\* returns success.
C17_FailedWaitIsFatal ==
    (cmd = "create" /\ hist.waitFailed) =>
        /\ ~hist.reportedReady
        /\ ~(pc = "done" /\ exitCode = 0)

\* C18: after global initialization plain-text logging is on whenever the
\* terminal is not interactive, or does not support ANSI escapes, or a CI
\* variable is set, whatever value was configured.
C18_PlainTextForced ==
    (/\ call.fn = "initializeAtun" /\ call.res.outcome = "ok"
     /\ \/ ~IsInteractiveTerminal(call.arg.terminal)
        \/ ~SupportsANSIEscapeCodes(call.arg.terminal)
        \/ IsCI(call.arg.environ))
        => call.res.LogPlainText

\* C19: SaveConfig never overwrites an atun.toml that exists in the working
\* directory: it leaves the file as it was, warns and returns no error; when
\* there is no such file and the write succeeds, the new file holds the
\* endpoint list and the router subnet id.
C19_ExistingFileIsKeptWithAWarning ==
    (call.fn = "SaveConfig" /\ call.res.err # "getwd") =>
        /\ call.arg.file.exists =>
               /\ call.res.file = call.arg.file
               /\ call.res.warned
               /\ call.res.err = ""
        /\ (~call.arg.file.exists /\ call.res.err = "") =>
               /\ call.res.file.exists
               /\ call.res.file.content = call.arg.snapshot

\* C20: after a successful `router uninstall --router <id>` the instance has
\* no atun.io tag left, its other tags and the instance itself are as they
\* were, and the configured router id is cleared exactly when it was <id>.
C20_UninstallRemovesAtunTagsOnly ==
    (call.fn = "router uninstall" /\ pc = "done" /\ exitCode = 0) =>
        /\ atunTags(tags) = NoTags
        /\ tags.other = call.arg.tags.other \ {"atun.io/owner"}
        /\ instances = <<Instance("i-1", "running")>>
        /\ cfg.RouterHostID = IF call.arg.RouterHostID = flags.router
                              THEN ""
                              ELSE call.arg.RouterHostID

\* C29: right after GetSession has completed an MFA refresh, the entry it
\* wrote is fresh: isMFAUpdateRequired on the same file and profile returns
\* false while the stored expiration has not passed, whatever the file held
\* before.
C29_RefreshedEntryIsFresh ==
    (call.fn = "GetSession" /\ call.res.err = "" /\ call.res.minted) =>
        ~isMFAUpdateRequired(call.res.file, call.arg.sc.Profile, call.arg.e.now)

\* EnsureSSHPublicKeyPresent has returned after querying the invocation
Polled == call.fn = "EnsureSSHPublicKeyPresent" /\ call.res.returned /\ call.res.polls > 0

\* C22: against the provider EnsureSSHPublicKeyPresent returns success only
\* when the last invocation it read has response code 0 and status Success;
\* against a local endpoint it returns success exactly when that status is
\* Success.
C22_SuccessNeedsCodeAndStatus ==
    (Polled /\ ~call.res.output.err) =>
        IF call.arg.endpoint = ""
        THEN call.res.err = "" =>
                 (call.res.output.ResponseCode = 0 /\ call.res.output.Status = "Success")
        ELSE call.res.err = "" <=> call.res.output.Status = "Success"

C24_WaitEndsAndLocalEndpointsAreNotPolled ==
    call.fn = "WaitForInstanceReady" =>
        /\ call.res.ticks <= TimeoutTicks
        /\ (pc = "select" /\ call.res.ticks = TimeoutTicks) =>
               ENABLED SelectWaitForInstanceReady
        /\ IF call.arg.AWSEndpointUrl = ""
           THEN /\ (call.res.returned /\ call.res.err = "") =>
                       (call.res.running /\ call.res.ping = "Online")
                /\ call.res.err = "timeout" => call.res.ticks = TimeoutTicks
           ELSE /\ call.res.polls = 0
                /\ call.res.returned => (call.res.err = "" /\ call.res.slept = 5)

\* C25: when a tunnel that runs locally is bound to the configured router id,
\* GetRouterHostIDFromTags resolves the router from it; otherwise it returns
\* the first running instance carrying the version and environment tags, and
\* the error "no instances found with required tags and in state RUNNING"
\* when there is none.
C25_ActiveTunnelResolvesTheRouter ==
    (call.fn = "GetRouterHostIDFromTags" /\ call.res.err \notin {"tunnels", "list"}) =>
        IF call.arg.RouterHostID \in call.arg.activeSSHTunnels
        THEN call.res = [id |-> call.arg.RouterHostID, err |-> ""]
        ELSE IF ListInstancesWithTags(call.arg.instances) = <<>>
        THEN call.res.err = "no instances found with required tags and in state RUNNING"
        ELSE call.res = [id |-> ListInstancesWithTags(call.arg.instances)[1].id, err |-> ""]

\* C27: whenever ActivateTunnel returns no error the liveness it returns is
\* true, so `up` reports "Tunnel is active" and exits with code 0 only when
\* the last liveness check found the tunnel up.
C27_NoErrorMeansTunnelUp ==
    /\ (act.op = "activate" /\ act.err = "") => act.tunnelIsUp
    /\ (cmd = "up" /\ pc = "done" /\ exitCode = 0 /\ act.op = "activate") => act.tunnelIsUp

\* C30: when GetRouterHostConfig returns an error in `down` or `status`, the
\* command still ends normally, by an error or by going on to report a tunnel
\* status, and never reads the configuration part of the empty result.
C30_FailedConfigIsNotUsed ==
    (cmd \in {"down", "status"} /\ ghc.called /\ ghc.err # "") =>
        /\ hist.outcome # "panic"
        /\ pc = "done" => exitCode \in {0, 1}

\* C26: in `version` on a capable terminal the wait of the command ends as
\* soon as an interrupt arrives or the context of the animation is done, and
\* the animation draws nothing once it is cancelled.
C26_AnimationStopsWhenCancelled ==
    call.fn = "version" =>
        /\ (call.res.interrupted \/ call.res.ctxDone) => pc \in {"return", "done"}
        /\ call.res.framesAfterCancel = 0

\* C28 as stated: of two concurrent invocations of up on the same router and
\* tunnel directory at most one calls StartSSHTunnel.
C28_AsStated ==
    call.fn = "up, up" => ~(call.res.starts[1] > 0 /\ call.res.starts[2] > 0)

\* C28: each of two concurrent invocations of up calls StartSSHTunnel at most
\* once, and only after its own liveness check found the tunnel down and its
\* own plugin check found no plugin running; nothing keeps both from doing so.
C28_EachStartFollowsItsOwnChecks ==
    call.fn = "up, up" =>
        \A p \in {1, 2} :
            /\ call.res.starts[p] <= 1
            /\ call.res.starts[p] = 1 => (call.res.sawDown[p] /\ call.res.sawNoPlugin[p])
            /\ call.res.phase[p] \in {"start", "plugin"} => call.res.sawDown[p]

C28_Witness ==
    /\ call.fn = "up, up"
    /\ call.res.starts = <<1, 1>>
    /\ call.res.phase = <<"returned", "returned">>

\* C21: a `create` that starts on a backend with no router and returns nil
\* leaves exactly one instance carrying the tag atun.io/version=1, and a
\* `delete` that follows it and returns nil leaves none of them running.
VersionTagged ==
    SelectSeq(instances, LAMBDA i : i.id = CreatedRouter /\ tags.version = "1")

OnlyTheCreatedRouter == \A i \in DOMAIN instances : instances[i].id = CreatedRouter

====
